---- MODULE Spec2Model ----
(***************************************************************************)
(* Model of the kube-health evaluation engine (rhobs/kube-health):         *)
(*   - GroupKindMatcher algebra (pkg/eval query.go: Merge / Equal / Match) *)
(*   - AggregateResult (pkg/analyze/analyze.go)                            *)
(*   - Evaluator cache, namespace preload, ownership index, Reset and the  *)
(*     recursive GenericAnalyzer traversal (pkg/eval evaluator.go,         *)
(*     pkg/analyze/generic.go), against a Loader that behaves like         *)
(*     RealLoader.Load (pkg/eval/realloader.go).                           *)
(***************************************************************************)
EXTENDS Integers, Sequences, FiniteSets, TLC

VARIABLES
    \* --- pure-function harness: GroupKindMatcher ---
    mA, mB, mOut,
    \* --- pure-function harness: AggregateResult ---
    aConds, aSubs, aOut,
    \* --- Evaluator fields ---
    cache, nsCache, ownership, ownershipRefreshNs, analyzersCache,
    \* --- environment and observation of the Evaluator ---
    owners, listed, relisted, lastOp, lastRet, crashed,
    \* --- the cluster behind the Loader: kind of every object, kinds whose
    \*     requests fail; owners whose sub-object load failed in the last call
    kinds, failing, loadErrObjs,
    \* --- shape of status.conditions of every object; did the last call panic
    schema, panicked,
    \* --- pure-function harness: arguments and result of one call ---
    callArgs, callRet,
    \* --- the CLI: poller goroutine, context, update channel, printer loop,
    \*     wait flags, exit code and the last decision of the wait function
    pollerPc, ctxDone, chanClosed, inFlight, printerPc, received, flags, exitCode, decision,
    \* --- one call of RealLoader.Load: position of every list goroutine of
    \*     listBulk, the collected objects, errResult, the failure that
    \*     occurred first, and the values Load returns
    bulkPc, bulkOut, errResult, firstErr, bulkRet

matcherVars == <<mA, mB, mOut>>
aggVars == <<aConds, aSubs, aOut>>
evalVars == <<cache, nsCache, ownership, ownershipRefreshNs, analyzersCache>>
obsVars == <<owners, listed, relisted, lastOp, lastRet, crashed, kinds, failing, loadErrObjs,
             schema, panicked>>
pureVars == <<callArgs, callRet>>
pollVars == <<pollerPc, ctxDone, chanClosed, inFlight, printerPc, received, flags, exitCode,
              decision>>
bulkVars == <<bulkPc, bulkOut, errResult, firstErr, bulkRet>>
vars == <<mA, mB, mOut, aConds, aSubs, aOut, callArgs, callRet,
          cache, nsCache, ownership, ownershipRefreshNs, analyzersCache,
          owners, listed, relisted, lastOp, lastRet, crashed,
          kinds, failing, loadErrObjs, schema, panicked,
          pollerPc, ctxDone, chanClosed, inFlight, printerPc, received, flags, exitCode,
          decision, bulkPc, bulkOut, errResult, firstErr, bulkRet>>

(***************************************************************************)
(* Bounds                                                                  *)
(***************************************************************************)
\* longest IncludedKinds / ExcludedKinds list drawn for the matcher harness
MaxKinds == 2
\* longest conditions / subStatuses list drawn for the aggregation harness
MaxLen == 2

(***************************************************************************)
(* Generic helpers                                                         *)
(***************************************************************************)
Range(s) == {s[i] : i \in 1..Len(s)}

SeqsUpTo(S, n) == UNION {[1..k -> S] : k \in 0..n}

Contains(s, x) == \E i \in 1..Len(s) : s[i] = x

RECURSIVE SetToSeq(_)
\* a fixed enumeration (ascending) of a finite set of UIDs
SetToSeq(S) ==
    IF S = {} THEN <<>>
    ELSE LET x == CHOOSE y \in S : \A z \in S : y <= z
         IN <<x>> \o SetToSeq(S \ {x})

(***************************************************************************)
(* status.Result: Unknown < Ok < Warning < Error                           *)
(***************************************************************************)
Unknown == 0
Ok == 1
Warning == 2
Error == 3
Results == {Unknown, Ok, Warning, Error}

NoErr == "nil"

Status(res, progressing, err) ==
    [Result |-> res, Progressing |-> progressing, Err |-> err]

(***************************************************************************)
(* GroupKindMatcher                                                        *)
(***************************************************************************)
GroupKindMatcher(includeAll, included, excluded) ==
    [IncludeAll |-> includeAll, IncludedKinds |-> included, ExcludedKinds |-> excluded]

\* the zero value GroupKindMatcher{}
EmptyMatcher == GroupKindMatcher(FALSE, <<>>, <<>>)

NewGroupKindMatcherSingle(kind) == GroupKindMatcher(FALSE, <<kind>>, <<>>)

intersect2(a, b) == SelectSeq(b, LAMBDA kind : kind \in Range(a))

\* sets is a sequence of at most two lists
intersect(sets) ==
    IF Len(sets) = 0 THEN <<>>
    ELSE IF Len(sets) = 1 THEN sets[1]
    ELSE intersect2(sets[1], sets[2])

Merge(m, other) ==
    LET bothEnum == ~m.IncludeAll /\ ~other.IncludeAll
        includeAll == ~bothEnum
        includedKinds == IF bothEnum THEN m.IncludedKinds \o other.IncludedKinds ELSE <<>>
        excludeInputs == (IF m.IncludeAll THEN <<m.ExcludedKinds>> ELSE <<>>)
                         \o (IF other.IncludeAll THEN <<other.ExcludedKinds>> ELSE <<>>)
        excludedKinds == intersect(excludeInputs)
    IN GroupKindMatcher(includeAll, includedKinds, excludedKinds)

Equal(m, other) ==
    IF Len(m.IncludedKinds) # Len(other.IncludedKinds)
       \/ Len(m.ExcludedKinds) # Len(other.ExcludedKinds) THEN FALSE
    ELSE IF m.IncludeAll # other.IncludeAll THEN FALSE
    ELSE IF Len(intersect2(m.IncludedKinds, other.IncludedKinds)) # Len(m.IncludedKinds) THEN FALSE
    ELSE IF Len(intersect2(m.ExcludedKinds, other.ExcludedKinds)) # Len(m.ExcludedKinds) THEN FALSE
    ELSE TRUE

Match(m, gk) ==
    IF Len(m.IncludedKinds) > 0 THEN Contains(m.IncludedKinds, gk)
    ELSE IF ~m.IncludeAll THEN FALSE
    ELSE IF Len(m.ExcludedKinds) > 0 THEN ~Contains(m.ExcludedKinds, gk)
    ELSE TRUE

(***************************************************************************)
(* AggregateResult                                                         *)
(***************************************************************************)
ObjectStatus(obj, st, subs, conds) ==
    [Object |-> obj, ObjStatus |-> st, SubStatuses |-> subs, Conditions |-> conds]

ConditionStatus(condType, condStatus, st) ==
    [Type |-> condType, CondValue |-> condStatus, CondStatus |-> st]

RECURSIVE AggregateFold(_, _)
\* the two loops of AggregateResult over a list of statuses, acc = <<res, progressing>>
AggregateFold(sts, acc) ==
    IF sts = <<>> THEN acc
    ELSE LET st == Head(sts)
             res == IF st.Result > acc[1] THEN st.Result ELSE acc[1]
             progressing == IF st.Progressing THEN TRUE ELSE acc[2]
         IN AggregateFold(Tail(sts), <<res, progressing>>)

RECURSIVE AggregateFoldLastWins(_, _)
AggregateFoldLastWins(sts, acc) ==
    IF sts = <<>> THEN acc
    ELSE LET st == Head(sts)
         IN AggregateFoldLastWins(Tail(sts), <<st.Result, st.Progressing \/ acc[2]>>)

AggregateResultLastWins(obj, subStatuses, conditions) ==
    LET c == AggregateFoldLastWins([i \in 1..Len(conditions) |-> conditions[i].CondStatus],
                                   <<Unknown, FALSE>>)
        s == AggregateFoldLastWins([i \in 1..Len(subStatuses) |-> subStatuses[i].ObjStatus], c)
    IN ObjectStatus(obj, Status(s[1], s[2], NoErr), subStatuses, conditions)

AggregateResult(obj, subStatuses, conditions) ==
    LET c == AggregateFold([i \in 1..Len(conditions) |-> conditions[i].CondStatus],
                           <<Unknown, FALSE>>)
        s == AggregateFold([i \in 1..Len(subStatuses) |-> subStatuses[i].ObjStatus], c)
    IN ObjectStatus(obj, Status(s[1], s[2], NoErr), subStatuses, conditions)

\* status.OkStatus(obj, subStatuses)
OkStatus(obj, subStatuses) ==
    ObjectStatus(obj, Status(Ok, FALSE, NoErr), subStatuses, <<>>)

\* status.UnknownStatusWithError(obj, err)
UnknownStatusWithError(obj, err) ==
    ObjectStatus(obj, Status(Unknown, FALSE, err), <<>>, <<>>)

(***************************************************************************)
(* GenericConditionAnalyzer                                                *)
(* A matcher list is represented by the set of condition types (of the     *)
(* model's universe) that one of its matchers accepts.                     *)
(***************************************************************************)
CondTypes == {"Ready", "Progressing", "Degraded", "MemoryPressure", "Disabled", "Other"}
CondValues == {"True", "False", "Unknown"}

\* CommonConditionsAnalyzer, restricted to CondTypes
CommonConditionsAnalyzer ==
    [Conditions |-> {"Ready"},
     ReversedPolarityConditions |-> {"Degraded", "MemoryPressure", "Progressing"},
     ProgressingConditions |-> {"Progressing"},
     WarningConditions |-> {"MemoryPressure"},
     UnknownConditions |-> {"Disabled"}]

matchFirstSetWins(a, condType) ==
    LET m1 == condType \in a.Conditions
        m2 == condType \in a.ReversedPolarityConditions
        m3 == condType \in a.ProgressingConditions
        m4 == condType \in a.WarningConditions
        m5 == condType \in a.UnknownConditions
        r == IF m1 \/ m2 THEN Error ELSE IF m3 THEN Unknown ELSE IF m4 THEN Warning ELSE Unknown
    IN [match |-> m1 \/ m2 \/ m3 \/ m4 \/ m5, reverse |-> m2, progressing |-> m3, result |-> r]

\* GenericConditionAnalyzer.match: the five loops in source order
match(a, condType) ==
    LET m1 == condType \in a.Conditions
        r1 == IF m1 THEN Error ELSE Unknown
        m2 == condType \in a.ReversedPolarityConditions
        r2 == IF m2 THEN Error ELSE r1
        m3 == condType \in a.ProgressingConditions
        r3 == IF m3 THEN Unknown ELSE r2
        m4 == condType \in a.WarningConditions
        r4 == IF m4 THEN Warning ELSE r3
        m5 == condType \in a.UnknownConditions
        r5 == IF m5 THEN Unknown ELSE r4
    IN [match |-> m1 \/ m2 \/ m3 \/ m4 \/ m5, reverse |-> m2, progressing |-> m3, result |-> r5]

\* ConditionStatusNoMatch: the zero ConditionStatus (no condition attached)
ConditionStatusNoMatch == [Type |-> "", CondValue |-> "", CondStatus |-> Status(Unknown, FALSE, NoErr)]

\* GenericConditionAnalyzer.Analyze; cond = [Type, Value]
ConditionAnalyze(a, cond) ==
    LET t == match(a, cond.Type)
    IN IF ~t.match THEN ConditionStatusNoMatch
       ELSE IF (~t.reverse /\ cond.Value = "False") \/ (t.reverse /\ cond.Value = "True")
            THEN ConditionStatus(cond.Type, cond.Value, Status(t.result, t.progressing, NoErr))
       ELSE IF cond.Value = "Unknown"
            THEN ConditionStatus(cond.Type, cond.Value, Status(Unknown, FALSE, NoErr))
       ELSE ConditionStatus(cond.Type, cond.Value, Status(Ok, FALSE, NoErr))

ConditionStatusUnknown(cond) ==
    ConditionStatus(cond.Type, cond.Value, Status(Unknown, FALSE, NoErr))

ConditionStatusProgressing(cond) ==
    ConditionStatus(cond.Type, cond.Value, Status(Unknown, TRUE, NoErr))

\* AnalyzeConditions with the single default analyzer
AnalyzeConditions(conditions, a) ==
    [i \in 1..Len(conditions) |->
        LET cs == ConditionAnalyze(a, conditions[i])
        IN IF cs = ConditionStatusNoMatch THEN ConditionStatusUnknown(conditions[i]) ELSE cs]

(***************************************************************************)
(* The cluster: objects the Loader can return                              *)
(***************************************************************************)
NamespaceAll == "*all*"
NamespaceNone == ""

GroupKinds == {"ConfigMap", "Job", "PersistentVolume", "StorageClass"}

\* kinds of Register.ignored that exist in the model's cluster
ignored == <<"ConfigMap">>

\* discovery: PersistentVolume and StorageClass are cluster-scoped, the other
\* kinds are namespaced
Namespaced(gk) == gk \notin {"PersistentVolume", "StorageClass"}

\* the objects of the cluster: three cluster-scoped objects, whose kinds the
\* variable kinds holds; the namespace "a" holds no Job and no ConfigMap
UIDs == {1, 2, 3}

KindOf(u) == kinds[u]

\* the two clusters of the model: three PersistentVolumes, or two
\* PersistentVolumes and a StorageClass
OneKind == [u \in UIDs |-> "PersistentVolume"]
TwoKinds == [u \in UIDs |-> IF u = 3 THEN "StorageClass" ELSE "PersistentVolume"]
NamespaceOf(u) == NamespaceNone

\* has the object a status block
HasStatus(u) == u \in {1, 2}

\* metadata.generation and status.observedGeneration (-1: not reported)
GenerationOf(u) == 2
ObservedGenerationOf(obj) ==
    IF obj.UID = 1 THEN (IF obj.Ver = "given" THEN 1 ELSE 2) ELSE -1

\* status.conditions; "given" is the copy a caller holds, "fresh" the
\* version the cluster serves now
ConditionsOf(obj) ==
    CASE obj.UID = 2 -> <<[Type |-> "Ready", Value |-> IF obj.Ver = "given" THEN "False" ELSE "True"]>>
      [] OTHER -> <<>>

Object(u, ver) == [UID |-> u, Ver |-> ver]

\* shapes of the field status.conditions: a list of maps, a list with an
\* entry that is not a map, a value that is not a list
WellFormed == [u \in UIDs |-> "ok"]
Shapes == {"ok", "entryNotMap", "notSlice"}

\* ownerReferences of every object, one configuration per run
OwnerConfigs ==
    LET none == [u \in UIDs |-> {}]
    IN { [none EXCEPT ![2] = {1}, ![3] = {2}],
         [none EXCEPT ![2] = {1}, ![3] = {1, 2}],
         [none EXCEPT ![1] = {2}, ![2] = {1}] }

(***************************************************************************)
(* Go maps and iteration orders                                            *)
(* A map is a function whose DOMAIN is its key set.  Go leaves the         *)
(* iteration order of a map unspecified; the model iterates in the fixed   *)
(* orders below, and results are compared up to that order.                *)
(***************************************************************************)
EmptyMap == [x \in {} |-> 0]

Put(f, k, v) == [x \in (DOMAIN f) \cup {k} |-> IF x = k THEN v ELSE f[x]]

KindOrder == <<"ConfigMap", "Job", "PersistentVolume", "StorageClass">>
NsOrder == <<NamespaceNone, NamespaceAll, "a">>

RECURSIVE Flatten(_)
Flatten(ss) == IF ss = <<>> THEN <<>> ELSE Head(ss) \o Flatten(Tail(ss))

(***************************************************************************)
(* Loader (RealLoader.Load -> client.listWithMatcher)                      *)
(***************************************************************************)
\* client.filterResources on a set of kinds
filterResources(resources, includeAll, includedGks, excludedGks) ==
    {gk \in resources :
        IF Len(includedGks) > 0 THEN Contains(includedGks, gk)
        ELSE IF ~includeAll THEN FALSE
        ELSE IF Len(excludedGks) > 0 THEN ~Contains(excludedGks, gk)
        ELSE TRUE}

\* client.compileGroupKindMatcher
compileGroupKindMatcher(matcher, ns) ==
    LET resources == IF ns = NamespaceAll THEN GroupKinds
                     ELSE IF ns = NamespaceNone THEN {gk \in GroupKinds : ~Namespaced(gk)}
                     ELSE {gk \in GroupKinds : Namespaced(gk)}
    IN filterResources(resources, matcher.IncludeAll, matcher.IncludedKinds, matcher.ExcludedKinds)

\* the kinds client.listWithMatcher hands to listBulk: one list request each
listWithMatcher(ns, matcher, excludedGks) ==
    LET resources == compileGroupKindMatcher(matcher, ns)
    IN IF Len(excludedGks) > 0
       THEN filterResources(resources, TRUE, <<>>, excludedGks)
       ELSE resources

\* client.list: the objects of one kind in ns (every namespace for "" and "*all*")
list(gk, ns) ==
    {u \in UIDs : KindOf(u) = gk
                  /\ (IF ns # NamespaceNone /\ ns # NamespaceAll THEN NamespaceOf(u) = ns ELSE TRUE)}

\* the error of a failed list or get request
ListErr == "listing resources failed"
GetErr == "get failed"

\* client.listBulk: the error is set when one of the list requests fails
listBulkErr(ns, gks) == IF gks \cap failing # {} THEN ListErr ELSE NoErr

\* RealLoader.Load: the objects, or nil and the error of listWithMatcher
LoaderLoad(ns, matcher, exclude) ==
    LET gks == listWithMatcher(ns, matcher, exclude)
        us == UNION {list(gk, ns) : gk \in gks}
        ordered == SetToSeq(us)
        err == listBulkErr(ns, gks)
    IN [objs |-> IF err # NoErr THEN <<>>
                 ELSE [i \in 1..Len(ordered) |-> Object(ordered[i], "fresh")],
        err |-> err]

\* RealLoader.Get
LoaderGet(obj) ==
    IF KindOf(obj.UID) \in failing THEN [obj |-> Object(0, "none"), err |-> GetErr]
    ELSE [obj |-> Object(obj.UID, "fresh"), err |-> NoErr]

(***************************************************************************)
(* nsCache                                                                 *)
(***************************************************************************)
newNsCache == [objects |-> EmptyMap, matcher |-> EmptyMatcher, needsRefill |-> FALSE]

\* nsCache.append
nsAppend(n, obj) ==
    LET gk == KindOf(obj.UID)
        old == IF gk \in DOMAIN n.objects THEN n.objects[gk] ELSE <<>>
    IN [n EXCEPT !.objects = Put(n.objects, gk, old \o <<obj>>)]

\* nsCache.getAll
getAll(n) ==
    LET keys == SelectSeq(KindOrder, LAMBDA gk : gk \in DOMAIN n.objects)
    IN Flatten([i \in 1..Len(keys) |-> n.objects[keys[i]]])

\* nsCache.updateMatcher
updateMatcher(n, gk) ==
    LET matcher == Merge(n.matcher, gk)
    IN IF ~Equal(matcher, n.matcher)
       THEN [n |-> [n EXCEPT !.matcher = matcher, !.needsRefill = TRUE], changed |-> TRUE]
       ELSE [n |-> n, changed |-> FALSE]

(***************************************************************************)
(* Evaluator                                                               *)
(* The operators below work on a record e of the Evaluator's fields plus   *)
(* the observation fields listed, relisted, diverged.              *)
(***************************************************************************)
\* NewEvaluator
NewEvaluator ==
    [cache |-> EmptyMap, nsCache |-> EmptyMap, ownership |-> EmptyMap,
     ownershipRefreshNs |-> <<>>, analyzersCache |-> EmptyMap,
     listed |-> {}, relisted |-> FALSE, diverged |-> FALSE, loadErrObjs |-> {},
     panicked |-> FALSE]

\* Evaluator.getNsCache (creates the entry when missing)
getNsCache(e, ns) ==
    IF ns \in DOMAIN e.nsCache THEN e
    ELSE [e EXCEPT !.nsCache = Put(e.nsCache, ns, newNsCache)]

updateCacheOverwrite(e, obj) ==
    LET ns == NamespaceOf(obj.UID)
        e1 == [e EXCEPT !.cache = Put(e.cache, obj.UID, obj)]
        e2 == getNsCache(e1, ns)
    IN [e |-> [e2 EXCEPT !.nsCache[ns] = nsAppend(e2.nsCache[ns], obj)], ok |-> TRUE]

\* Evaluator.updateCache
updateCache(e, obj) ==
    IF obj.UID \in DOMAIN e.cache THEN [e |-> e, ok |-> FALSE]
    ELSE LET ns == NamespaceOf(obj.UID)
             e1 == [e EXCEPT !.cache = Put(e.cache, obj.UID, obj)]
             e2 == getNsCache(e1, ns)
         IN [e |-> [e2 EXCEPT !.nsCache[ns] = nsAppend(e2.nsCache[ns], obj)], ok |-> TRUE]

RECURSIVE loadInsert(_, _, _, _)
\* the loop of loadNamespace over the loaded objects; returns the evaluator
\* and the set touchedNs
loadInsert(e, ns, objs, touchedNs) ==
    IF objs = <<>> THEN [e |-> e, touchedNs |-> touchedNs]
    ELSE LET obj == Head(objs)
             r == updateCache(e, obj)
         IN IF ~r.ok THEN loadInsert(e, ns, Tail(objs), touchedNs)
            ELSE LET e1 == IF ns = NamespaceAll
                           THEN [r.e EXCEPT !.nsCache[ns] = nsAppend(r.e.nsCache[ns], obj)]
                           ELSE r.e
                 IN loadInsert(e1, ns, Tail(objs), touchedNs \cup {NamespaceOf(obj.UID)})

RECURSIVE markTouched(_, _)
\* the loop of loadNamespace over touchedNs (given as a list)
markTouched(refreshNs, nss) ==
    IF nss = <<>> THEN refreshNs
    ELSE IF ~Contains(refreshNs, Head(nss))
         THEN markTouched(refreshNs \o <<Head(nss)>>, Tail(nss))
         ELSE markTouched(refreshNs, Tail(nss))

\* Evaluator.loadNamespace behind a successful Loader.Load of objs; e0 has
\* the namespace entry, gks are the kinds the Loader listed
loadNamespaceInsert(e0, ns, gks, objs) ==
    LET e1 == [e0 EXCEPT !.nsCache[ns].needsRefill = FALSE,
                         !.listed = e0.listed \cup {<<ns, gk>> : gk \in gks},
                         !.relisted = e0.relisted \/ (\E gk \in gks : <<ns, gk>> \in e0.listed)]
        r == loadInsert(e1, ns, objs, {})
        touched == SelectSeq(NsOrder, LAMBDA x : x \in r.touchedNs)
    IN [r.e EXCEPT !.ownershipRefreshNs = markTouched(r.e.ownershipRefreshNs, touched)]

\* Evaluator.loadNamespace behind getNsCache: returns the evaluator and the
\* error; a Loader error returns before anything is changed
loadNamespaceEntry(e0, ns) ==
    LET n == e0.nsCache[ns]
        gksLoaded == SelectSeq(KindOrder, LAMBDA gk : gk \in DOMAIN n.objects)
        gks == listWithMatcher(ns, n.matcher, gksLoaded)
        l == LoaderLoad(ns, n.matcher, gksLoaded)
    IN IF l.err # NoErr
       THEN [e |-> [e0 EXCEPT !.listed = e0.listed \cup {<<ns, gk>> : gk \in gks},
                              !.relisted = e0.relisted \/ (\E gk \in gks : <<ns, gk>> \in e0.listed)],
             err |-> l.err]
       ELSE [e |-> loadNamespaceInsert(e0, ns, gks, l.objs), err |-> NoErr]

\* Evaluator.loadNamespace
loadNamespace(e, ns) == loadNamespaceEntry(getNsCache(e, ns), ns)

\* Filter for one concrete namespace whose entry exists
filterNs(e, ns, matcher) ==
    LET n == e.nsCache[ns]
        keys == SelectSeq(KindOrder, LAMBDA gk : gk \in DOMAIN n.objects /\ Match(matcher, gk))
    IN Flatten([i \in 1..Len(keys) |-> n.objects[keys[i]]])

\* Evaluator.Filter
Filter(e, ns, matcher) ==
    IF ns = NamespaceAll
    THEN LET keys == SelectSeq(NsOrder, LAMBDA k : k \in DOMAIN e.nsCache /\ k # NamespaceAll)
         IN [e |-> e, objs |-> Flatten([i \in 1..Len(keys) |-> filterNs(e, keys[i], matcher)])]
    ELSE LET e1 == getNsCache(e, ns)
         IN [e |-> e1, objs |-> filterNs(e1, ns, matcher)]

RECURSIVE touchNs(_, _)
touchNs(e, nss) == IF nss = <<>> THEN e ELSE touchNs(getNsCache(e, Head(nss)), Tail(nss))

\* Evaluator.refreshOwnership
refreshOwnership(e) ==
    LET e1 == touchNs(e, e.ownershipRefreshNs)
        objs == Flatten([i \in 1..Len(e.ownershipRefreshNs) |->
                            getAll(e1.nsCache[e.ownershipRefreshNs[i]])])
        owned(o) == {objs[i].UID : i \in {j \in 1..Len(objs) : o \in owners[objs[j].UID]}}
        newOwners == UNION {owners[objs[i].UID] : i \in 1..Len(objs)}
    IN [e1 EXCEPT !.ownership = [o \in (DOMAIN e.ownership) \cup newOwners |->
                                    (IF o \in DOMAIN e.ownership THEN e.ownership[o] ELSE {})
                                    \cup owned(o)],
                  !.ownershipRefreshNs = <<>>]

\* Evaluator.filterOwnedBy
filterOwnedBy(e, owner, candidates) ==
    LET e1 == refreshOwnership(e)
        childUIDs == IF owner.UID \in DOMAIN e1.ownership THEN e1.ownership[owner.UID] ELSE {}
    IN [e |-> e1, objs |-> SelectSeq(candidates, LAMBDA cand : cand.UID \in childUIDs)]

\* query specifications
KindQuerySpec(ns, gk) == [Type |-> "Kind", Ns |-> ns, GK |-> gk, Object |-> Object(0, "none")]

OwnerQuerySpec(obj, gk) ==
    [Type |-> "Owner", Ns |-> NamespaceOf(obj.UID), GK |-> gk, Object |-> obj]

GenericOwnerQuerySpec(obj) == OwnerQuerySpec(obj, GroupKindMatcher(TRUE, <<>>, ignored))

\* PodLogQuerySpec: the empty matcher in the namespace of the pod
PodLogQuerySpec(obj) == [Type |-> "PodLog", Ns |-> obj.Ns, GK |-> EmptyMatcher, Object |-> obj]

\* the synthetic object PodLogQuerySpec.Eval wraps the log lines in
LogObject == [UID |-> 0, Ver |-> "Log"]

\* QuerySpec.Eval
QueryEval(e, q) ==
    IF q.Type = "Kind" THEN Filter(e, q.Ns, q.GK)
    ELSE IF q.Type = "PodLog" THEN [e |-> e, objs |-> <<LogObject>>]
    ELSE LET f == Filter(e, q.Ns, q.GK)
         IN filterOwnedBy(f.e, q.Object, f.objs)

\* Evaluator.Load behind loadNamespace, whose result ln it drops: a failed
\* load of the sub-objects of q.Object is only noted for the observer
loadIgnoringError(ln, q) ==
    QueryEval(IF ln.err # NoErr /\ q.Type = "Owner"
              THEN [ln.e EXCEPT !.loadErrObjs = ln.e.loadErrObjs \cup {q.Object.UID}]
              ELSE ln.e, q)

\* Evaluator.Load
Load(e, q) ==
    LET e0 == getNsCache(e, q.Ns)
        um == updateMatcher(e0.nsCache[q.Ns], q.GK)
        e1 == [e0 EXCEPT !.nsCache[q.Ns] = um.n]
    IN IF um.changed THEN loadIgnoringError(loadNamespace(e1, q.Ns), q)
       ELSE QueryEval(e1, q)

(***************************************************************************)
(* Analyzers: DefaultAnalyzers() with an empty registry, i.e. the tail     *)
(* pair AlwaysGreenAnalyzer, GenericAnalyzer.                              *)
(***************************************************************************)
analyzers == <<"AlwaysGreen", "Generic">>

Supports(a, obj) ==
    IF a = "AlwaysGreen" THEN KindOf(obj.UID) \in {"Namespace"} ELSE TRUE

\* Evaluator.findAnalyzer
findAnalyzer(e, obj) ==
    LET hits == SelectSeq(analyzers, LAMBDA a : Supports(a, obj))
    IN IF hits = <<>> THEN [e |-> e, analyzer |-> "nil"]
       ELSE [e |-> [e EXCEPT !.analyzersCache = Put(e.analyzersCache, obj.UID, Head(hits))],
             analyzer |-> Head(hits)]

\* AnalyzeObservedGeneration
AnalyzeObservedGeneration(obj) ==
    IF ObservedGenerationOf(obj) >= 0 /\ ObservedGenerationOf(obj) < GenerationOf(obj.UID)
    THEN <<ConditionStatusProgressing([Type |-> "ObservedGeneration", Value |-> "False"])>>
    ELSE <<>>

\* nesting depth of Analyze calls after which the traversal is declared
\* non-terminating (the Go stack would overflow)
MaxDepth == 5

RECURSIVE Analyze(_, _, _, _)
RECURSIVE analyzeObjects(_, _, _, _)
RECURSIVE EvalQuery(_, _, _, _)

\* analyzeObjects: ret = append(ret, a.Analyze(ctx, obj)) for the first
\* object (status st) in front of the statuses of the remaining ones
appendStatus(st, rest) == [e |-> rest.e, sts |-> <<st>> \o rest.sts]

\* analyzeObjects: the loop continues behind the first object, whose
\* analysis returned r
analyzeRest(r, objects, analyzer, fuel) ==
    appendStatus(r.st, analyzeObjects(r.e, Tail(objects), analyzer, fuel))

\* analyzeObjects: the loop body with the analyzer found (fa)
analyzeFirst(fa, objects, analyzer, fuel) ==
    analyzeRest(Analyze(fa.e, fa.analyzer, Head(objects), fuel), objects, analyzer, fuel)

\* Evaluator.analyzeObjects; analyzer = "nil" looks the analyzer up
analyzeObjects(e, objects, analyzer, fuel) ==
    IF objects = <<>> \/ e.diverged \/ e.panicked THEN [e |-> e, sts |-> <<>>]
    ELSE analyzeFirst(IF analyzer = "nil" THEN findAnalyzer(e, Head(objects))
                      ELSE [e |-> e, analyzer |-> analyzer],
                      objects, analyzer, fuel)

\* EvalQuery behind its Load (l): the loaded objects are analyzed
analyzeLoaded(l, analyzer, fuel) == analyzeObjects(l.e, l.objs, analyzer, fuel)

\* Evaluator.EvalQuery (Load never returns an error)
EvalQuery(e, q, analyzer, fuel) == analyzeLoaded(Load(e, q), analyzer, fuel)

\* GenericAnalyzer.Analyze behind its EvalQuery, which returned r; when the
\* recursion below did not come back (r.e.diverged) no statement behind
\* the EvalQuery is reached
GenericAnalyze(obj, r) ==
    LET subStatuses == r.sts
        conditions == AnalyzeObservedGeneration(obj)
                      \o AnalyzeConditions(ConditionsOf(obj), CommonConditionsAnalyzer)
    IN IF r.e.diverged
       THEN [e |-> r.e, st |-> UnknownStatusWithError(obj, "diverged")]
       ELSE IF ~HasStatus(obj.UID) /\ Len(subStatuses) = 0
       THEN [e |-> r.e, st |-> OkStatus(obj, subStatuses)]
       ELSE IF schema[obj.UID] = "notSlice"
       THEN \* AnalyzeObjectConditions: NestedSlice returns an error
            [e |-> r.e, st |-> UnknownStatusWithError(obj, "Error analyzing conditions")]
       ELSE IF schema[obj.UID] = "entryNotMap"
       THEN \* loadConditions: the unchecked type assertion panics
            [e |-> [r.e EXCEPT !.panicked = TRUE], st |-> UnknownStatusWithError(obj, "panic")]
       ELSE [e |-> r.e, st |-> AggregateResult(obj, subStatuses, conditions)]

\* Analyzer.Analyze for the two analyzers
Analyze(e, a, obj, fuel) ==
    IF fuel = 0
    THEN [e |-> [e EXCEPT !.diverged = TRUE], st |-> UnknownStatusWithError(obj, "diverged")]
    ELSE IF a = "AlwaysGreen" THEN [e |-> e, st |-> OkStatus(obj, <<>>)]
    ELSE GenericAnalyze(obj, EvalQuery(e, GenericOwnerQuerySpec(obj), "nil", fuel - 1))

\* Evaluator.Eval
Eval(e, obj, fuel) ==
    LET fa == findAnalyzer(e, obj)
        found == obj.UID \in DOMAIN fa.e.cache
        got == LoaderGet(obj)
        updatedObj == IF found THEN fa.e.cache[obj.UID] ELSE got.obj
        e1 == IF found THEN fa.e ELSE updateCache(fa.e, obj).e
    IN IF ~found /\ got.err # NoErr
       THEN [e |-> fa.e, st |-> UnknownStatusWithError(obj, got.err)]
       ELSE Analyze(e1, fa.analyzer, updatedObj, fuel)

\* Evaluator.Reset (clear of a slice zeroes its elements and keeps its length)
Reset(e) ==
    [e EXCEPT !.cache = EmptyMap, !.ownership = EmptyMap, !.nsCache = EmptyMap,
              !.ownershipRefreshNs = [i \in 1..Len(e.ownershipRefreshNs) |-> ""]]

(***************************************************************************)
(* State machine of one Evaluator                                          *)
(***************************************************************************)
\* caps on the two lists the code lets grow without limit
MaxIncluded == 2
MaxRefresh == 2

\* the Evaluator of the current state as a record
Current ==
    [cache |-> cache, nsCache |-> nsCache, ownership |-> ownership,
     ownershipRefreshNs |-> ownershipRefreshNs, analyzersCache |-> analyzersCache,
     listed |-> listed, relisted |-> relisted, diverged |-> FALSE, loadErrObjs |-> {},
     panicked |-> FALSE]

WithinCaps(e) ==
    /\ Len(e.ownershipRefreshNs) <= MaxRefresh
    /\ \A ns \in DOMAIN e.nsCache : Len(e.nsCache[ns].matcher.IncludedKinds) <= MaxIncluded

\* store the Evaluator record e back, with the call's name and return value
Commit(e, op, ret) ==
    /\ WithinCaps(e)
    /\ cache' = e.cache
    /\ nsCache' = e.nsCache
    /\ ownership' = e.ownership
    /\ ownershipRefreshNs' = e.ownershipRefreshNs
    /\ analyzersCache' = e.analyzersCache
    /\ listed' = e.listed
    /\ relisted' = e.relisted
    /\ crashed' = (e.diverged \/ e.panicked)
    /\ panicked' = e.panicked
    /\ loadErrObjs' = e.loadErrObjs
    /\ lastOp' = op
    /\ lastRet' = IF e.panicked THEN <<>> ELSE ret
    /\ UNCHANGED <<owners, kinds, failing, schema, matcherVars, aggVars, pureVars, pollVars, bulkVars>>

\* the queries a caller of the Evaluator issues
TopQueries == {KindQuerySpec("a", NewGroupKindMatcherSingle("Job")),
               KindQuerySpec("a", NewGroupKindMatcherSingle("ConfigMap")),
               KindQuerySpec(NamespaceNone, NewGroupKindMatcherSingle("PersistentVolume")),
               KindQuerySpec(NamespaceAll, NewGroupKindMatcherSingle("PersistentVolume"))}
TopEvalQueries == {KindQuerySpec(NamespaceNone, NewGroupKindMatcherSingle("PersistentVolume"))}

InitEval ==
    /\ cache = EmptyMap
    /\ nsCache = EmptyMap
    /\ ownership = EmptyMap
    /\ ownershipRefreshNs = <<>>
    /\ analyzersCache = EmptyMap
    /\ owners \in OwnerConfigs
    /\ listed = {}
    /\ relisted = FALSE
    /\ lastOp = [op |-> "New"]
    /\ lastRet = <<>>
    /\ crashed = FALSE
    /\ kinds = OneKind
    /\ failing = {}
    /\ loadErrObjs = {}
    /\ schema = WellFormed
    /\ panicked = FALSE

IdleMatcher == mA = EmptyMatcher /\ mB = EmptyMatcher /\ mOut = [op |-> "none"]
IdleAgg == aConds = <<>> /\ aSubs = <<>> /\ aOut = [op |-> "none"]
IdlePure == callArgs = [fn |-> "none"] /\ callRet = [fn |-> "none"]

\* the CLI before the poller is started
NoFlags == [waitForever |-> FALSE, waitProgress |-> FALSE, waitOk |-> FALSE]
IdlePoll ==
    /\ pollerPc = "idle"
    /\ ctxDone = FALSE
    /\ chanClosed = FALSE
    /\ inFlight = <<>>
    /\ printerPc = "idle"
    /\ received = <<>>
    /\ flags = NoFlags
    /\ exitCode = 0
    /\ decision = "none"

\* the nil error of listBulk; its errors name the resource (listError)
NoListErr == [msg |-> NoErr, resource |-> ""]

\* no call of RealLoader.Load in progress
IdleBulk ==
    /\ bulkPc = EmptyMap
    /\ bulkOut = <<>>
    /\ errResult = NoListErr
    /\ firstErr = NoListErr
    /\ bulkRet = [fn |-> "none"]

Init == InitEval /\ IdleMatcher /\ IdleAgg /\ IdlePure /\ IdlePoll /\ IdleBulk

\* a caller evaluates the object u through the copy it holds
DoEval(u) ==
    /\ ~crashed
    /\ LET r == Eval(Current, Object(u, "given"), MaxDepth)
       IN Commit(r.e, [op |-> "Eval", uid |-> u], <<r.st>>)

DoLoad(q) ==
    /\ ~crashed
    /\ LET r == Load(Current, q)
       IN Commit(r.e, [op |-> "Load", q |-> q], r.objs)

DoEvalQuery(q) ==
    /\ ~crashed
    /\ LET r == EvalQuery(Current, q, "nil", MaxDepth)
       IN Commit(r.e, [op |-> "EvalQuery", q |-> q], r.sts)

\* Reset starts a new evaluation pass: the listing record starts over
DoReset ==
    /\ ~crashed
    /\ Commit([Reset(Current) EXCEPT !.listed = {}, !.relisted = FALSE], [op |-> "Reset"], <<>>)

Next ==
    \/ \E u \in UIDs : DoEval(u)
    \/ \E q \in TopQueries : DoLoad(q)
    \/ \E q \in TopEvalQueries : DoEvalQuery(q)
    \/ DoReset

Spec == Init /\ [][Next]_vars

(***************************************************************************)
(* Harness for the GroupKindMatcher operations: the two matchers are drawn *)
(* in the initial state, every action applies one operation to them.       *)
(***************************************************************************)
MatcherKinds == {"ConfigMap", "Job"}

\* matchers as the repository builds them: IncludedKinds without IncludeAll
\* (enumerating mode), ExcludedKinds only with IncludeAll
Matchers ==
    {GroupKindMatcher(FALSE, inc, <<>>) : inc \in SeqsUpTo(MatcherKinds, MaxKinds)}
    \cup {GroupKindMatcher(TRUE, <<>>, exc) : exc \in SeqsUpTo(MatcherKinds, MaxKinds)}

MatcherResult(op, m, b, gk) == [op |-> op, m |-> m, b |-> b, gk |-> gk]

IdleEval ==
    /\ cache = EmptyMap
    /\ nsCache = EmptyMap
    /\ ownership = EmptyMap
    /\ ownershipRefreshNs = <<>>
    /\ analyzersCache = EmptyMap
    /\ owners = [u \in UIDs |-> {}]
    /\ listed = {}
    /\ relisted = FALSE
    /\ lastOp = [op |-> "New"]
    /\ lastRet = <<>>
    /\ crashed = FALSE
    /\ kinds = OneKind
    /\ failing = {}
    /\ loadErrObjs = {}
    /\ schema = WellFormed
    /\ panicked = FALSE

InitMatcher ==
    /\ mA \in Matchers
    /\ mB \in Matchers
    /\ mOut = MatcherResult("none", EmptyMatcher, FALSE, "")
    /\ IdleEval
    /\ IdleAgg
    /\ IdlePure
    /\ IdlePoll
    /\ IdleBulk

DoMerge ==
    /\ mOut' = MatcherResult("Merge", Merge(mA, mB), FALSE, "")
    /\ UNCHANGED <<mA, mB, aggVars, evalVars, obsVars, pureVars, pollVars, bulkVars>>

DoEqual ==
    /\ mOut' = MatcherResult("Equal", EmptyMatcher, Equal(mA, mB), "")
    /\ UNCHANGED <<mA, mB, aggVars, evalVars, obsVars, pureVars, pollVars, bulkVars>>

DoMatch(gk) ==
    /\ mOut' = MatcherResult("Match", EmptyMatcher, Match(mA, gk), gk)
    /\ UNCHANGED <<mA, mB, aggVars, evalVars, obsVars, pureVars, pollVars, bulkVars>>

NextMatcher ==
    \/ DoMerge
    \/ DoEqual
    \/ \E gk \in MatcherKinds : DoMatch(gk)

SpecMatcher == InitMatcher /\ [][NextMatcher]_vars

(***************************************************************************)
(* Harness for AggregateResult                                             *)
(***************************************************************************)
AggObject == Object(1, "fresh")

AggConditions ==
    {ConditionStatus("Ready", "True", Status(r, p, NoErr)) : r \in Results, p \in BOOLEAN}

AggSubStatuses ==
    {ObjectStatus(Object(2, "fresh"), Status(r, p, NoErr), <<>>, <<>>) : r \in Results, p \in BOOLEAN}

InitAgg ==
    /\ aConds \in SeqsUpTo(AggConditions, MaxLen)
    /\ aSubs \in SeqsUpTo(AggSubStatuses, MaxLen)
    /\ aOut = [op |-> "none"]
    /\ IdleEval
    /\ IdleMatcher
    /\ IdlePure
    /\ IdlePoll
    /\ IdleBulk

DoAggregate ==
    /\ aOut.op = "none"
    /\ aOut' = [op |-> "AggregateResult", ret |-> AggregateResult(AggObject, aSubs, aConds)]
    /\ UNCHANGED <<aConds, aSubs, matcherVars, evalVars, obsVars, pureVars, pollVars, bulkVars>>

NextAgg == DoAggregate

SpecAgg == InitAgg /\ [][NextAgg]_vars

(***************************************************************************)
(* The Evaluator against a cluster of two kinds whose list and get         *)
(* requests may fail: the caller evaluates objects, the API server of a    *)
(* kind goes down or comes back between the calls.                         *)
(***************************************************************************)
FailureModes == {{}, {"StorageClass"}, {"PersistentVolume"}}

InitFail ==
    /\ cache = EmptyMap
    /\ nsCache = EmptyMap
    /\ ownership = EmptyMap
    /\ ownershipRefreshNs = <<>>
    /\ analyzersCache = EmptyMap
    /\ owners \in OwnerConfigs
    /\ listed = {}
    /\ relisted = FALSE
    /\ lastOp = [op |-> "New"]
    /\ lastRet = <<>>
    /\ crashed = FALSE
    /\ kinds = TwoKinds
    /\ failing = {}
    /\ loadErrObjs = {}
    /\ schema = WellFormed
    /\ panicked = FALSE
    /\ IdleMatcher
    /\ IdleAgg
    /\ IdlePure
    /\ IdlePoll
    /\ IdleBulk

\* the requests for the kinds of f start to fail, all others succeed
SetFailing(f) ==
    /\ ~crashed
    /\ f # failing
    /\ failing' = f
    /\ lastOp' = [op |-> "SetFailing"]
    /\ lastRet' = <<>>
    /\ loadErrObjs' = {}
    /\ UNCHANGED <<evalVars, owners, listed, relisted, crashed, kinds, schema, panicked,
                   matcherVars, aggVars, pureVars, pollVars, bulkVars>>

NextFail ==
    \/ \E u \in UIDs : DoEval(u)
    \/ \E q \in TopEvalQueries : DoEvalQuery(q)
    \/ DoReset
    \/ \E f \in FailureModes : SetFailing(f)

SpecFail == InitFail /\ [][NextFail]_vars

(***************************************************************************)
(* The Evaluator against a cluster in which the status.conditions field of *)
(* one object may be malformed.                                            *)
(***************************************************************************)
\* at most one object of the cluster is malformed
SchemaConfigs ==
    {sc \in [UIDs -> Shapes] : \A u, v \in UIDs : (sc[u] # "ok" /\ sc[v] # "ok") => u = v}

InitSchema ==
    /\ cache = EmptyMap
    /\ nsCache = EmptyMap
    /\ ownership = EmptyMap
    /\ ownershipRefreshNs = <<>>
    /\ analyzersCache = EmptyMap
    /\ owners \in OwnerConfigs
    /\ listed = {}
    /\ relisted = FALSE
    /\ lastOp = [op |-> "New"]
    /\ lastRet = <<>>
    /\ crashed = FALSE
    /\ kinds = TwoKinds
    /\ failing = {}
    /\ loadErrObjs = {}
    /\ schema \in SchemaConfigs
    /\ panicked = FALSE
    /\ IdleMatcher
    /\ IdleAgg
    /\ IdlePure
    /\ IdlePoll
    /\ IdleBulk

NextSchema ==
    \/ \E u \in UIDs : DoEval(u)
    \/ \E q \in TopEvalQueries : DoEvalQuery(q)
    \/ DoReset

SpecSchema == InitSchema /\ [][NextSchema]_vars

(***************************************************************************)
(* Harness for the pure functions: the arguments of one call are drawn in  *)
(* the initial state, the action of the function named there applies it.   *)
(***************************************************************************)
\* --- analyzers as far as findAnalyzer sees them: the kinds they support ---
AlwaysGreenAnalyzer == [Name |-> "AlwaysGreen", Kinds |-> {"Namespace"}, Any |-> FALSE]
GenericAnalyzer == [Name |-> "Generic", Kinds |-> {}, Any |-> TRUE]
NilAnalyzer == [Name |-> "nil", Kinds |-> {}, Any |-> FALSE]

\* kind-specific analyzers a program may register
KindAnalyzers ==
    {[Name |-> "Pod", Kinds |-> {"Pod"}, Any |-> FALSE],
     [Name |-> "Workload", Kinds |-> {"Pod", "Deployment"}, Any |-> FALSE],
     [Name |-> "NamespaceSpecific", Kinds |-> {"Namespace"}, Any |-> FALSE]}

ObjectKinds == {"Pod", "Deployment", "Namespace", "Other"}

\* longest registry drawn
MaxRegistered == 2

DefaultAnalyzersCatchAllFirst(registered) ==
    <<AlwaysGreenAnalyzer, GenericAnalyzer>> \o registered

\* DefaultAnalyzers() over the registry
DefaultAnalyzers(registered) ==
    registered \o <<AlwaysGreenAnalyzer, GenericAnalyzer>>

\* Analyzer.Supports
SupportsKind(a, kind) == a.Any \/ kind \in a.Kinds

RECURSIVE findAnalyzerIn(_, _)
\* the loop of Evaluator.findAnalyzer over the analyzers as
findAnalyzerIn(as, kind) ==
    IF as = <<>> THEN NilAnalyzer
    ELSE IF SupportsKind(Head(as), kind) THEN Head(as)
    ELSE findAnalyzerIn(Tail(as), kind)

FindAnalyzerArgs ==
    {[fn |-> "findAnalyzer", registered |-> reg, kind |-> k] :
        reg \in SeqsUpTo(KindAnalyzers, MaxRegistered), k \in ObjectKinds}

\* --- GenericConditionAnalyzer: every combination of the five matcher sets
\*     naming or not naming the type Reconciling ---
ConditionAnalyzers ==
    {[Conditions |-> c, ReversedPolarityConditions |-> r, ProgressingConditions |-> p,
      WarningConditions |-> w, UnknownConditions |-> u] :
        c \in SUBSET {"Reconciling"}, r \in SUBSET {"Reconciling"}, p \in SUBSET {"Reconciling"},
        w \in SUBSET {"Reconciling"}, u \in SUBSET {"Reconciling"}}

ConditionArgs ==
    {[fn |-> "Analyze", a |-> a, cond |-> [Type |-> t, Value |-> v]] :
        a \in ConditionAnalyzers, t \in {"Reconciling", "Other"}, v \in CondValues}

\* --- RefQuerySpec.Eval: the candidates Filter returned and the reference ---
NoUID == 0
RefNames == {"x", "y"}
MaxCandidates == 2

\* RefQuerySpec.Eval: the loop over the candidates
refFilter(candidates, refObject) ==
    SelectSeq(candidates, LAMBDA cand : refObject.UID = cand.UID \/ refObject.Name = cand.Name)

\* cached objects of one kind in one namespace: distinct UIDs, distinct names
RefCandidates ==
    {cs \in SeqsUpTo([UID : UIDs, Name : RefNames], MaxCandidates) :
        \A i, j \in 1..Len(cs) : (cs[i].UID = cs[j].UID \/ cs[i].Name = cs[j].Name) => i = j}

RefArgs ==
    {[fn |-> "RefQuery", candidates |-> cs, refObject |-> ref] :
        cs \in RefCandidates, ref \in [UID : UIDs \cup {NoUID}, Name : RefNames]}

\* --- setExitCode ---
ProgressingBit == 8
MaxStatuses == 3

RECURSIVE exitCodeOfResults(_, _)
\* setExitCode: first loop
exitCodeOfResults(statuses, code) ==
    IF statuses = <<>> THEN code
    ELSE LET res == Head(statuses).ObjStatus.Result
         IN exitCodeOfResults(Tail(statuses),
                CASE res = Unknown -> 3
                  [] res = Error -> IF code > 2 THEN code ELSE 2
                  [] res = Warning -> IF code > 1 THEN code ELSE 1
                  [] OTHER -> code)

RECURSIVE exitCodeLastResult(_, _)
exitCodeLastResult(statuses, code) ==
    IF statuses = <<>> THEN code
    ELSE LET res == Head(statuses).ObjStatus.Result
         IN exitCodeLastResult(Tail(statuses),
                CASE res = Unknown -> 3
                  [] res = Error -> 2
                  [] res = Warning -> 1
                  [] OTHER -> code)

\* exitCode | 0b1000
orProgressingBit(code) ==
    IF (code \div ProgressingBit) % 2 = 1 THEN code ELSE code + ProgressingBit

setExitCodeLastWins(statuses) ==
    LET code == exitCodeLastResult(statuses, 0)
    IN IF \E i \in 1..Len(statuses) : statuses[i].ObjStatus.Progressing
       THEN orProgressingBit(code) ELSE code

\* setExitCode
setExitCode(statuses) ==
    LET code == exitCodeOfResults(statuses, 0)
    IN IF \E i \in 1..Len(statuses) : statuses[i].ObjStatus.Progressing
       THEN orProgressingBit(code) ELSE code

\* top-level statuses handed to the CLI
TopStatuses ==
    {ObjectStatus(Object(1, "fresh"), Status(r, p, NoErr), <<>>, <<>>) : r \in Results, p \in BOOLEAN}

ExitArgs == {[fn |-> "setExitCode", statuses |-> sts] : sts \in SeqsUpTo(TopStatuses, MaxStatuses)}

\* --- PodAnalyzer.analyzeContainer ---
\* progressingTimeout, in minutes
progressingTimeout == 3
\* largest age, in minutes, of a container's last termination
MaxAge == 4

ConditionStatusOk(cond) ==
    ConditionStatus(cond.Type, cond.Value, Status(Ok, FALSE, NoErr))

ConditionStatusError(cond) ==
    ConditionStatus(cond.Type, cond.Value, Status(Error, FALSE, NoErr))

\* SyntheticCondition builds a condition with status True
SyntheticConditionOk(condType) == ConditionStatusOk([Type |-> condType, Value |-> "True"])
SyntheticConditionError(condType) == ConditionStatusError([Type |-> condType, Value |-> "True"])

\* the Container object analyzeContainer builds, and the zero ObjectStatus
ContainerObject == [UID |-> NoUID, Ver |-> "Container"]
ZeroObjectStatus == ObjectStatus(Object(NoUID, "none"), Status(Unknown, FALSE, NoErr), <<>>, <<>>)

\* corev1.ContainerStatus: the state that is set, the Ready flag, whether
\* LastTerminationState.Terminated is set and how long ago it finished
ContainerStatuses ==
    {cs \in [State : {"Waiting", "Running", "Terminated"}, Ready : BOOLEAN,
             LastTerminated : BOOLEAN, Age : 0..MaxAge] :
        ~cs.LastTerminated => cs.Age = 0}

\* the condition of a Waiting container
waitingCondition(cs) ==
    LET progressing == ~(cs.LastTerminated /\ cs.Age > progressingTimeout)
    IN ConditionStatus("Waiting", "True", Status(Error, progressing, NoErr))

\* the Pod whose containers are analyzed
PodObject == [UID |-> 1, Ver |-> "fresh", Ns |-> "a"]

\* PodAnalyzer.loadContainerLogs: Evaluator.Load of the PodLogQuerySpec
loadContainerLogs(e, obj) == Load(e, PodLogQuerySpec(obj))

\* PodAnalyzer.analyzeContainer: the four tests in source order, each of
\* which overwrites cond; a condition worse than Ok loads the logs of the
\* container (expandWithLogs), which only extend the condition's message
analyzeContainer(e, obj, cs) ==
    LET c1 == IF cs.State = "Waiting" THEN waitingCondition(cs) ELSE ConditionStatusNoMatch
        c2 == IF cs.State = "Running" THEN SyntheticConditionOk("Running") ELSE c1
        c3 == IF ~cs.Ready THEN SyntheticConditionError("Ready") ELSE c2
        c4 == IF cs.State = "Terminated" THEN SyntheticConditionError("Terminated") ELSE c3
    IN IF c4 = ConditionStatusNoMatch THEN [e |-> e, st |-> ZeroObjectStatus]
       ELSE [e |-> IF c4.CondStatus.Result > Ok THEN loadContainerLogs(e, obj).e ELSE e,
             st |-> AggregateResult(ContainerObject, <<>>, <<c4>>)]

ContainerArgs == {[fn |-> "analyzeContainer", cs |-> cs] : cs \in ContainerStatuses}

\* --- DeploymentAnalyzer.Analyze ---
MaxReplicaSets == 2

\* deploymentConditionAnalyzer.Analyze; cond = [Type, Value, Reason]
deploymentConditionAnalyze(cond) ==
    IF cond.Type = "Progressing" /\ cond.Reason = "ProgressDeadlineExceeded"
    THEN ConditionStatusError(cond)
    ELSE IF cond.Type = "Available" /\ cond.Value = "False"
    THEN ConditionStatusError(cond)
    ELSE ConditionStatusNoMatch

\* AnalyzeConditions with the analyzers deploymentConditionAnalyzer,
\* CommonConditionsAnalyzer: the first analyzer that matches decides
AnalyzeDeploymentConditions(conditions) ==
    [i \in 1..Len(conditions) |->
        LET cs1 == deploymentConditionAnalyze(conditions[i])
        IN IF cs1 # ConditionStatusNoMatch THEN cs1
           ELSE AnalyzeConditions(<<conditions[i]>>, CommonConditionsAnalyzer)[1]]

\* status.GetCondition: index of the first condition of the type, 0 if none
GetCondition(conditions, condType) ==
    LET is == {i \in 1..Len(conditions) : conditions[i].Type = condType}
    IN IF is = {} THEN 0 ELSE CHOOSE i \in is : \A j \in is : i <= j

\* the Deployment and its ReplicaSets (spec.replicas is 0 or 1)
DeploymentObject == Object(1, "fresh")
ReplicaSetObject(replicas) == [UID |-> 2, Ver |-> "fresh", Replicas |-> replicas]

\* the variant below downgrades the condition also when no ReplicaSet remains
DeploymentAnalyzeVacuous(conds, subs) ==
    LET conditions == AnalyzeDeploymentConditions(conds)
        subStatuses == SelectSeq(subs, LAMBDA st : st.Object.Replicas # 0)
        p == GetCondition(conditions, "Progressing")
        allDone == \A i \in 1..Len(subStatuses) :
                       /\ subStatuses[i].ObjStatus.Result = Ok
                       /\ ~subStatuses[i].ObjStatus.Progressing
    IN AggregateResult(DeploymentObject, subStatuses,
           IF p # 0 /\ allDone
           THEN [conditions EXCEPT ![p].CondStatus.Progressing = FALSE,
                                   ![p].CondStatus.Result = Ok]
           ELSE conditions)
\* DeploymentAnalyzer.Analyze behind EvalQuery, which returned the statuses
\* subs of the ReplicaSets
DeploymentAnalyze(conds, subs) ==
    LET conditions == AnalyzeDeploymentConditions(conds)
        subStatuses == SelectSeq(subs, LAMBDA st : st.Object.Replicas # 0)
        p == GetCondition(conditions, "Progressing")
        allDone == /\ Len(subStatuses) > 0
                   /\ \A i \in 1..Len(subStatuses) :
                         /\ subStatuses[i].ObjStatus.Result = Ok
                         /\ ~subStatuses[i].ObjStatus.Progressing
    IN AggregateResult(DeploymentObject, subStatuses,
           IF p # 0 /\ allDone
           THEN [conditions EXCEPT ![p].CondStatus.Progressing = FALSE,
                                   ![p].CondStatus.Result = Ok]
           ELSE conditions)

\* status.conditions of a Deployment: Available, and Progressing if present
DeploymentConditions ==
    LET avail == {[Type |-> "Available", Value |-> v, Reason |-> "MinimumReplicas"] :
                     v \in {"True", "False"}}
        progr == {[Type |-> "Progressing", Value |-> "True", Reason |-> "NewReplicaSetAvailable"],
                  [Type |-> "Progressing", Value |-> "True", Reason |-> "ReplicaSetUpdated"],
                  [Type |-> "Progressing", Value |-> "False", Reason |-> "ProgressDeadlineExceeded"]}
    IN {<<a>> : a \in avail} \cup {<<a, c>> : a \in avail, c \in progr}

\* statuses the ReplicaSetAnalyzer returns for the ReplicaSets
ReplicaSetStatuses ==
    {ObjectStatus(ReplicaSetObject(n), st, <<>>, <<>>) :
        n \in {0, 1},
        st \in {Status(Ok, FALSE, NoErr), Status(Ok, TRUE, NoErr), Status(Error, FALSE, NoErr)}}

DeploymentArgs ==
    {[fn |-> "DeploymentAnalyze", conds |-> c, subs |-> ss] :
        c \in DeploymentConditions, ss \in SeqsUpTo(ReplicaSetStatuses, MaxReplicaSets)}

\* --- ClusterOperatorAnalyzer.Analyze ---
MaxRelated == 2
\* depth of nested ClusterOperator analyses the goroutine stack can hold
MaxNesting == 3

\* kinds registered with RegisterIgnoredKinds
IgnoredKinds == {"Namespace", "Secret", "ConfigMap"}
IsIgnoredKind(gk) == gk \in IgnoredKinds

gkClusterOperator == "ClusterOperator"

\* the objects of the cluster: the ClusterOperator co, a second one, a Route
\* with the name of co, another Route and a Namespace; related entries
\* name the namespace of the object they refer to
ClusterObjects ==
    << [UID |-> 1, Group |-> "config.openshift.io", Resource |-> "clusteroperators",
        Kind |-> "ClusterOperator", Name |-> "co", Label |-> ""],
       [UID |-> 2, Group |-> "config.openshift.io", Resource |-> "clusteroperators",
        Kind |-> "ClusterOperator", Name |-> "other", Label |-> "app"],
       [UID |-> 3, Group |-> "route.openshift.io", Resource |-> "routes",
        Kind |-> "Route", Name |-> "co", Label |-> "app"],
       [UID |-> 4, Group |-> "route.openshift.io", Resource |-> "routes",
        Kind |-> "Route", Name |-> "rt", Label |-> ""],
       [UID |-> 5, Group |-> "", Resource |-> "namespaces",
        Kind |-> "Namespace", Name |-> "ns", Label |-> "app"] >>

\* entries of status.relatedObjects: group, resource and name ("" for all
\* objects of the resource)
RelatedObjects ==
    {[Group |-> o.Group, Resource |-> o.Resource, Name |-> n] :
        o \in Range(ClusterObjects), n \in {"", "co", "other", "rt", "ns"}}

\* Loader.ResourceToKind: the RealLoader looks the resource up among the
\* discovered ones, the FakeLoader returns the zero GroupVersionKind
ResourceToKind(loader, gr) ==
    IF loader = "RealLoader" /\ \E o \in Range(ClusterObjects) : o.Resource = gr.Resource
    THEN (CHOOSE o \in Range(ClusterObjects) : o.Resource = gr.Resource).Kind
    ELSE ""

\* Loader.LoadResource: the RealLoader gets the named object of the resource,
\* or lists the resource when the name is empty; the FakeLoader returns the
\* objects with the name and the group
LoadResource(loader, gr, name) ==
    IF loader = "RealLoader"
    THEN LET objs == SelectSeq(ClusterObjects,
                         LAMBDA o : o.Resource = gr.Resource /\ (name = "" \/ o.Name = name))
         IN IF name # "" /\ objs = <<>> THEN [objs |-> <<>>, err |-> GetErr]
            ELSE [objs |-> objs, err |-> NoErr]
    ELSE [objs |-> SelectSeq(ClusterObjects, LAMBDA o : o.Name = name /\ o.Group = gr.Group),
          err |-> NoErr]

\* Loader.LoadResourceBySelector: the RealLoader lists the objects of the
\* resource that carry the label, the FakeLoader returns nothing
LoadResourceBySelector(loader, gr, label) ==
    IF loader = "RealLoader"
    THEN [objs |-> SelectSeq(ClusterObjects,
                       LAMBDA o : o.Resource = gr.Resource /\ (label = "" \/ o.Label = label)),
          err |-> NoErr]
    ELSE [objs |-> <<>>, err |-> NoErr]

\* adaptRelatedObjects drops the entries with the name of the parent
adaptRelatedObjects(parent, relatedObjects) ==
    SelectSeq(relatedObjects, LAMBDA r : parent.Name # r.Name)

\* the analyzers of the program that support the kinds of the cluster
RouteAnalyzer == [Name |-> "Route", Kinds |-> {"Route"}, Any |-> FALSE]
ClusterOperatorAnalyzer == [Name |-> "ClusterOperator", Kinds |-> {gkClusterOperator}, Any |-> FALSE]

\* Evaluator.findAnalyzer on an object LoadResource returned: the analyzer
\* found is written to analyzersCache
findAnalyzerOf(e, obj) ==
    LET a == findAnalyzerIn(DefaultAnalyzers(<<RouteAnalyzer, ClusterOperatorAnalyzer>>), obj.Kind)
    IN [e |-> [e EXCEPT !.analyzersCache = Put(e.analyzersCache, obj.UID, a.Name)],
        analyzer |-> a.Name]

\* RouteAnalyzer.Analyze of a Route without status.ingress
RouteAnalyze(obj) == AggregateResult(obj, <<>>, <<>>)

\* what evaluateRelatedObjects has collected behind one more EvalResource (r)
addEvaluated(acc, objInfo, r) ==
    [e |-> r.e,
     statuses |-> IF r.err # NoErr THEN acc.statuses ELSE acc.statuses \o r.sts,
     evaluated |-> Append(acc.evaluated, objInfo)]
\* the status ClusterOperatorAnalyzer.Analyze returns behind evaluateRelatedObjects
coResult(obj, r) ==
    [e |-> r.e, st |-> AggregateResult(obj, r.statuses, <<>>), evaluated |-> r.evaluated]

RECURSIVE ClusterOperatorAnalyze(_, _, _, _, _)
RECURSIVE analyzeRelatedObjects(_, _, _, _, _, _, _)
RECURSIVE evaluateRelatedObjects(_, _, _, _, _, _)

\* Analyzer.Analyze of the analyzer findAnalyzer returned (fa)
AnalyzeRelated(loader, fa, obj, relatedOf, depth) ==
    IF fa.analyzer = "ClusterOperator"
    THEN ClusterOperatorAnalyze(loader, fa.e, obj, relatedOf, depth + 1)
    ELSE IF fa.analyzer = "Route" THEN [e |-> fa.e, st |-> RouteAnalyze(obj)]
    ELSE IF fa.analyzer = "AlwaysGreen" THEN [e |-> fa.e, st |-> OkStatus(obj, <<>>)]
    ELSE [e |-> fa.e, st |-> UnknownStatusWithError(obj, "no analyzer")]

\* Evaluator.analyzeObjects(objects, nil), the loop behind the analysis (r)
\* of the object i
analyzeRelatedNext(loader, objs, relatedOf, depth, i, sts, r) ==
    analyzeRelatedObjects(loader, r.e, objs, relatedOf, depth, i + 1, Append(sts, r.st))
analyzeRelatedObjects(loader, e, objs, relatedOf, depth, i, sts) ==
    IF i > Len(objs) \/ e.diverged THEN [e |-> e, sts |-> sts, err |-> NoErr]
    ELSE analyzeRelatedNext(loader, objs, relatedOf, depth, i, sts,
             AnalyzeRelated(loader, findAnalyzerOf(e, objs[i]), objs[i], relatedOf, depth))

\* Evaluator.EvalResource and EvalResourceWithSelector behind the Loader
\* call, which returned loaded
analyzeResource(loader, e, loaded, relatedOf, depth) ==
    IF loaded.err # NoErr THEN [e |-> e, sts |-> <<>>, err |-> loaded.err]
    ELSE analyzeRelatedObjects(loader, e, loaded.objs, relatedOf, depth, 1, <<>>)

\* Evaluator.EvalResource
EvalResource(loader, e, gr, name, relatedOf, depth) ==
    analyzeResource(loader, e, LoadResource(loader, gr, name), relatedOf, depth)

\* Evaluator.EvalResourceWithSelector
EvalResourceWithSelector(loader, e, gr, label, relatedOf, depth) ==
    analyzeResource(loader, e, LoadResourceBySelector(loader, gr, label), relatedOf, depth)

\* ClusterOperatorAnalyzer.evaluateRelatedObjects; evaluated records the
\* entries EvalResource was called for
evaluateRelatedObjects(loader, objectInfos, relatedOf, depth, i, acc) ==
    IF i > Len(objectInfos) \/ acc.e.diverged THEN acc
    ELSE evaluateRelatedObjects(loader, objectInfos, relatedOf, depth, i + 1,
            IF IsIgnoredKind(ResourceToKind(loader, objectInfos[i])) THEN acc
            ELSE addEvaluated(acc, objectInfos[i],
                     EvalResource(loader, acc.e, objectInfos[i], objectInfos[i].Name,
                                  relatedOf, depth)))

\* ClusterOperatorAnalyzer.Analyze of an object without status.conditions;
\* relatedOf maps a ClusterOperator's UID to its status.relatedObjects; an
\* analysis nested deeper than MaxNesting exhausts the stack (e.diverged)
ClusterOperatorAnalyze(loader, e, obj, relatedOf, depth) ==
    IF depth > MaxNesting
    THEN [e |-> [e EXCEPT !.diverged = TRUE], st |-> UnknownStatusWithError(obj, "diverged"),
          evaluated |-> <<>>]
    ELSE coResult(obj,
             evaluateRelatedObjects(loader, adaptRelatedObjects(obj, relatedOf[obj.UID]),
                 relatedOf, depth, 1,
                 [e |-> e, statuses |-> <<>>, evaluated |-> <<>>]))

ClusterOperatorArgs ==
    {[fn |-> "ClusterOperatorAnalyze", loader |-> l, related |-> r] :
        l \in {"RealLoader", "FakeLoader"}, r \in SeqsUpTo(RelatedObjects, MaxRelated)}

\* calls of EvalResource and EvalResourceWithSelector on a cluster in which
\* the ClusterOperator co has at most one related object
EvalResourceArgs ==
    {[fn |-> "EvalResource", loader |-> l, gr |-> g, related |-> r] :
        l \in {"RealLoader", "FakeLoader"}, g \in RelatedObjects,
        r \in SeqsUpTo(RelatedObjects, 1)}
EvalResourceWithSelectorArgs ==
    {[fn |-> "EvalResourceWithSelector", loader |-> l, gr |-> g, label |-> lb, related |-> r] :
        l \in {"RealLoader", "FakeLoader"}, g \in {x \in RelatedObjects : x.Name = ""},
        lb \in {"", "app"}, r \in SeqsUpTo(RelatedObjects, 1)}

InitPure ==
    /\ \/ callArgs \in FindAnalyzerArgs
       \/ callArgs \in ConditionArgs
       \/ callArgs \in RefArgs
       \/ callArgs \in ExitArgs
       \/ callArgs \in ContainerArgs
       \/ callArgs \in DeploymentArgs
       \/ callArgs \in ClusterOperatorArgs
       \/ callArgs \in EvalResourceArgs
       \/ callArgs \in EvalResourceWithSelectorArgs
    /\ callRet = [fn |-> "none"]
    /\ IdleEval
    /\ IdleMatcher
    /\ IdleAgg
    /\ IdlePoll
    /\ IdleBulk

Return(ret) ==
    /\ callRet.fn = "none"
    /\ callRet' = [fn |-> callArgs.fn, ret |-> ret]
    /\ UNCHANGED <<callArgs, matcherVars, aggVars, evalVars, obsVars, pollVars, bulkVars>>

DoFindAnalyzer ==
    /\ callArgs.fn = "findAnalyzer"
    /\ Return(findAnalyzerIn(DefaultAnalyzers(callArgs.registered), callArgs.kind))

DoConditionAnalyze ==
    /\ callArgs.fn = "Analyze"
    /\ Return(ConditionAnalyze(callArgs.a, callArgs.cond))

DoRefQuery ==
    /\ callArgs.fn = "RefQuery"
    /\ Return(refFilter(callArgs.candidates, callArgs.refObject))

DoSetExitCode ==
    /\ callArgs.fn = "setExitCode"
    /\ Return(setExitCode(callArgs.statuses))

\* a call that works on the Evaluator returns: the Evaluator record e is
\* stored back, a call that exhausted the stack ends the process
ReturnWith(e, ret) ==
    /\ callRet.fn = "none"
    /\ callRet' = [fn |-> callArgs.fn, ret |-> ret]
    /\ cache' = e.cache
    /\ nsCache' = e.nsCache
    /\ ownership' = e.ownership
    /\ ownershipRefreshNs' = e.ownershipRefreshNs
    /\ analyzersCache' = e.analyzersCache
    /\ crashed' = e.diverged
    /\ UNCHANGED <<callArgs, matcherVars, aggVars, owners, listed, relisted, lastOp, lastRet,
                   kinds, failing, loadErrObjs, schema, panicked, pollVars, bulkVars>>

\* what the caller sees of a result: nothing is returned by a call that
\* exhausted the stack; evaluated is kept for the observer
relatedResult(r) ==
    IF r.e.diverged THEN [overflow |-> TRUE, status |-> ZeroObjectStatus, evaluated |-> r.evaluated]
    ELSE [overflow |-> FALSE, status |-> r.st, evaluated |-> r.evaluated]
resourceResult(r) ==
    IF r.e.diverged THEN [overflow |-> TRUE, sts |-> <<>>, err |-> NoErr]
    ELSE [overflow |-> FALSE, sts |-> r.sts, err |-> r.err]

analyzeContainerReturn(r) == ReturnWith(r.e, r.st)
DoAnalyzeContainer ==
    /\ callArgs.fn = "analyzeContainer"
    /\ analyzeContainerReturn(analyzeContainer(Current, PodObject, callArgs.cs))

DoDeploymentAnalyze ==
    /\ callArgs.fn = "DeploymentAnalyze"
    /\ Return(DeploymentAnalyze(callArgs.conds, callArgs.subs))

\* Analyze of the ClusterOperator co; the other ClusterOperator has no
\* related objects
relatedReturn(r) == ReturnWith(r.e, relatedResult(r))
DoClusterOperatorAnalyze ==
    /\ callArgs.fn = "ClusterOperatorAnalyze"
    /\ relatedReturn(ClusterOperatorAnalyze(callArgs.loader, Current, ClusterObjects[1],
                         <<callArgs.related, <<>> >>, 1))

resourceReturn(r) == ReturnWith(r.e, resourceResult(r))
DoEvalResource ==
    /\ callArgs.fn = "EvalResource"
    /\ resourceReturn(EvalResource(callArgs.loader, Current, callArgs.gr, callArgs.gr.Name,
                          <<callArgs.related, <<>> >>, 0))

DoEvalResourceWithSelector ==
    /\ callArgs.fn = "EvalResourceWithSelector"
    /\ resourceReturn(EvalResourceWithSelector(callArgs.loader, Current, callArgs.gr,
                          callArgs.label, <<callArgs.related, <<>> >>, 0))

NextPure ==
    \/ DoFindAnalyzer
    \/ DoConditionAnalyze
    \/ DoRefQuery
    \/ DoSetExitCode
    \/ DoAnalyzeContainer
    \/ DoDeploymentAnalyze
    \/ DoClusterOperatorAnalyze
    \/ DoEvalResource
    \/ DoEvalResourceWithSelector

SpecPure == InitPure /\ [][NextPure]_vars

(***************************************************************************)
(* The CLI: StatusPoller goroutine, update channel, PeriodicPrinter loop   *)
(* and wait function.  MonitorPoller.Start runs the same goroutine.        *)
(***************************************************************************)
\* the objects given on the command line
PollObjects == <<1, 2>>

\* statuses Eval returns for one object in some poll cycle; they depend on
\* the cluster at the time of the cycle
PolledStatus == {Status(Ok, FALSE, NoErr), Status(Error, TRUE, NoErr),
                 Status(Error, FALSE, NoErr), Status(Unknown, FALSE, NoErr)}

\* the Statuses of one StatusUpdate: one status per polled object
PollStatuses ==
    {[i \in 1..Len(PollObjects) |->
        ObjectStatus(Object(PollObjects[i], "fresh"), st[i], <<>>, <<>>)] :
     st \in [1..Len(PollObjects) -> PolledStatus]}

\* the wait flags of the command line
WaitFlags == [waitForever : BOOLEAN, waitProgress : BOOLEAN, waitOk : BOOLEAN]

\* waitFunction: "finish" when the callback calls finish(), "wait" otherwise
waitFunction(fl, statuses) ==
    LET progressing ==
            /\ fl.waitProgress \/ fl.waitOk
            /\ \E i \in 1..Len(statuses) :
                  \/ statuses[i].ObjStatus.Progressing
                  \/ statuses[i].ObjStatus.Result = Unknown
        ready == \A i \in 1..Len(statuses) : statuses[i].ObjStatus.Result = Ok
    IN IF fl.waitForever THEN "wait"
       ELSE IF fl.waitProgress THEN (IF ~progressing THEN "finish" ELSE "wait")
       ELSE IF fl.waitOk THEN (IF ~progressing /\ ready THEN "finish" ELSE "wait")
       ELSE "finish"

\* health command: the poller is started with a cancellable context and the
\* printer starts to range over the update channel
InitCLI ==
    /\ pollerPc = "run"
    /\ ctxDone = FALSE
    /\ chanClosed = FALSE
    /\ inFlight = <<>>
    /\ printerPc = "recv"
    /\ received = <<>>
    /\ flags \in WaitFlags
    /\ exitCode = 0
    /\ decision = "none"
    /\ IdleEval
    /\ IdleMatcher
    /\ IdleAgg
    /\ IdlePure
    /\ IdleBulk

\* StatusPoller.run up to the channel send: Reset, Eval of every object
StatusPollerRun ==
    /\ pollerPc = "run"
    /\ \E sts \in PollStatuses : inFlight' = sts
    /\ pollerPc' = "send"
    /\ UNCHANGED <<ctxDone, chanClosed, printerPc, received, flags, exitCode, decision,
                   matcherVars, aggVars, evalVars, obsVars, pureVars, bulkVars>>

\* the send on the unbuffered channel meets the receive of the range loop
Deliver ==
    /\ pollerPc = "send"
    /\ printerPc = "recv"
    /\ received' = inFlight
    /\ inFlight' = <<>>
    /\ pollerPc' = "select"
    /\ printerPc' = "callback"
    /\ UNCHANGED <<ctxDone, chanClosed, flags, exitCode, decision,
                   matcherVars, aggVars, evalVars, obsVars, pureVars, bulkVars>>

\* select: case <-ctx.Done(): return, and the deferred close runs; the
\* variant below returns without closing the channel
SelectDoneNoClose ==
    /\ pollerPc = "select"
    /\ ctxDone
    /\ pollerPc' = "done"
    /\ UNCHANGED <<chanClosed, ctxDone, inFlight, printerPc, received, flags, exitCode,
                   decision, matcherVars, aggVars, evalVars, obsVars, pureVars, bulkVars>>
SelectDone ==
    /\ pollerPc = "select"
    /\ ctxDone
    /\ pollerPc' = "done"
    /\ chanClosed' = TRUE
    /\ UNCHANGED <<ctxDone, inFlight, printerPc, received, flags, exitCode, decision,
                   matcherVars, aggVars, evalVars, obsVars, pureVars, bulkVars>>

\* select: case <-time.After(s.interval): the next cycle starts
SelectTimer ==
    /\ pollerPc = "select"
    /\ pollerPc' = "run"
    /\ UNCHANGED <<ctxDone, chanClosed, inFlight, printerPc, received, flags, exitCode,
                   decision, matcherVars, aggVars, evalVars, obsVars, pureVars, bulkVars>>

\* PeriodicPrinter.Start: body of the loop; the callback is the wait
\* function, whose finish() sets the exit code and cancels the context
PrinterCallback ==
    /\ printerPc = "callback"
    /\ decision' = waitFunction(flags, received)
    /\ IF decision' = "finish"
       THEN exitCode' = setExitCode(received) /\ ctxDone' = TRUE
       ELSE UNCHANGED <<exitCode, ctxDone>>
    /\ printerPc' = "recv"
    /\ UNCHANGED <<pollerPc, chanClosed, inFlight, received, flags,
                   matcherVars, aggVars, evalVars, obsVars, pureVars, bulkVars>>

\* PeriodicPrinter.Start: the range loop ends when the channel is closed
PrinterEnd ==
    /\ printerPc = "recv"
    /\ chanClosed
    /\ printerPc' = "done"
    /\ UNCHANGED <<pollerPc, ctxDone, chanClosed, inFlight, received, flags, exitCode,
                   decision, matcherVars, aggVars, evalVars, obsVars, pureVars, bulkVars>>

\* the context of the command is cancelled from outside
CancelContext ==
    /\ ~ctxDone
    /\ ctxDone' = TRUE
    /\ UNCHANGED <<pollerPc, chanClosed, inFlight, printerPc, received, flags, exitCode,
                   decision, matcherVars, aggVars, evalVars, obsVars, pureVars, bulkVars>>

NextCLI ==
    \/ StatusPollerRun
    \/ Deliver
    \/ SelectDone
    \/ SelectTimer
    \/ PrinterCallback
    \/ PrinterEnd
    \/ CancelContext

\* the goroutines keep running; a select with several ready cases picks
\* each of them with equal probability
FairCLI ==
    /\ WF_vars(StatusPollerRun)
    /\ WF_vars(Deliver)
    /\ WF_vars(PrinterCallback)
    /\ WF_vars(PrinterEnd)
    /\ SF_vars(SelectDone)

SpecCLI == InitCLI /\ [][NextCLI]_vars /\ FairCLI

(***************************************************************************)
(* One call of RealLoader.Load: listBulk starts one goroutine per          *)
(* resource; the goroutines share the variable errResult without           *)
(* synchronisation and hand their objects to a collector goroutine.        *)
(***************************************************************************)
\* the resources listWithMatcher hands to listBulk for all namespaces and a
\* matcher that includes all kinds but the ignored ones
BulkResources ==
    listWithMatcher(NamespaceAll, GroupKindMatcher(TRUE, <<>>, ignored), <<>>)

\* the error a list goroutine builds from the error of client.list
listError(resource) == [msg |-> ListErr, resource |-> resource]

InitBulk ==
    /\ bulkPc = [r \in BulkResources |-> "list"]
    /\ bulkOut = <<>>
    /\ errResult = NoListErr
    /\ firstErr = NoListErr
    /\ bulkRet = [fn |-> "none"]
    /\ cache = EmptyMap
    /\ nsCache = EmptyMap
    /\ ownership = EmptyMap
    /\ ownershipRefreshNs = <<>>
    /\ analyzersCache = EmptyMap
    /\ owners = [u \in UIDs |-> {}]
    /\ listed = {}
    /\ relisted = FALSE
    /\ lastOp = [op |-> "New"]
    /\ lastRet = <<>>
    /\ crashed = FALSE
    /\ kinds = TwoKinds
    /\ failing \in SUBSET BulkResources
    /\ loadErrObjs = {}
    /\ schema = WellFormed
    /\ panicked = FALSE
    /\ IdleMatcher
    /\ IdleAgg
    /\ IdlePure
    /\ IdlePoll

\* goroutine of resource r: c.list returns; a failure occurs here
BulkList(r) ==
    /\ bulkPc[r] = "list"
    /\ bulkPc' = [bulkPc EXCEPT ![r] = IF r \in failing THEN "failed" ELSE "send"]
    /\ firstErr' = IF r \in failing /\ firstErr = NoListErr THEN listError(r) ELSE firstErr
    /\ UNCHANGED <<bulkOut, errResult, bulkRet,
                   matcherVars, aggVars, evalVars, obsVars, pureVars, pollVars>>

\* goroutine of resource r: errResult = fmt.Errorf(...); return
BulkSetError(r) ==
    /\ bulkPc[r] = "failed"
    /\ errResult' = listError(r)
    /\ bulkPc' = [bulkPc EXCEPT ![r] = "done"]
    /\ UNCHANGED <<bulkOut, firstErr, bulkRet,
                   matcherVars, aggVars, evalVars, obsVars, pureVars, pollVars>>

\* goroutine of resource r: resultsChan <- res, which the collector appends
BulkSend(r) ==
    /\ bulkPc[r] = "send"
    /\ bulkOut' = bulkOut \o SetToSeq(list(r, NamespaceAll))
    /\ bulkPc' = [bulkPc EXCEPT ![r] = "done"]
    /\ UNCHANGED <<errResult, firstErr, bulkRet,
                   matcherVars, aggVars, evalVars, obsVars, pureVars, pollVars>>

\* RealLoader.Load behind listWithMatcher, which returned unsts and err
RealLoaderLoad(unsts, err) ==
    IF err # NoListErr THEN [fn |-> "Load", objs |-> <<>>, err |-> err]
    ELSE [fn |-> "Load", objs |-> unsts, err |-> NoListErr]

\* wg.Wait() returns, listBulk returns out and errResult, and Load returns
BulkReturn ==
    /\ bulkRet.fn = "none"
    /\ \A r \in BulkResources : bulkPc[r] = "done"
    /\ bulkRet' = RealLoaderLoad(bulkOut, errResult)
    /\ UNCHANGED <<bulkPc, bulkOut, errResult, firstErr,
                   matcherVars, aggVars, evalVars, obsVars, pureVars, pollVars>>

NextBulk ==
    \/ \E r \in BulkResources : BulkList(r)
    \/ \E r \in BulkResources : BulkSetError(r)
    \/ \E r \in BulkResources : BulkSend(r)
    \/ BulkReturn

SpecBulk == InitBulk /\ [][NextBulk]_vars

(***************************************************************************)
(* Properties                                                              *)
(***************************************************************************)

\* C1: within one evaluation pass (no Reset in between) the Loader never
\* lists a (namespace, GroupKind) pair that it already listed in this pass.
C1_EachPairListedAtMostOnce == ~relisted

\* C2: m.Merge(m) is equal to m as judged by Equal, for every matcher m.
C2_MergeIdempotent ==
    (mOut.op = "Merge" /\ mA = mB) => Equal(mOut.m, mA)

\* C3: Merge only widens: whatever a or b matches, a.Merge(b) matches.
C3_MergeWidens ==
    mOut.op = "Merge" =>
        \A gk \in MatcherKinds : (Match(mA, gk) \/ Match(mB, gk)) => Match(mOut.m, gk)

\* C4: when exactly one of the two merged matchers has IncludeAll, the merged
\* matcher has IncludeAll and an empty ExcludedKinds list.
C4_OneSidedIncludeAllDropsExclusions ==
    (mOut.op = "Merge" /\ mA.IncludeAll # mB.IncludeAll) =>
        (mOut.m.IncludeAll /\ mOut.m.ExcludedKinds = <<>>)

\* C5: a.Equal(b) holds exactly when the IncludeAll flags agree and the
\* IncludedKinds and the ExcludedKinds are equal as sets; Equal is symmetric.
C5_EqualIsSetEquality ==
    mOut.op = "Equal" =>
        /\ mOut.b <=> (/\ mA.IncludeAll = mB.IncludeAll
                       /\ Range(mA.IncludedKinds) = Range(mB.IncludedKinds)
                       /\ Range(mA.ExcludedKinds) = Range(mB.ExcludedKinds))
        /\ mOut.b <=> Equal(mB, mA)

Max(S) == CHOOSE x \in S : \A y \in S : y <= x

Perms(n) == {p \in [1..n -> 1..n] : \A i, j \in 1..n : p[i] = p[j] => i = j}

Permute(s, p) == [i \in 1..Len(s) |-> s[p[i]]]

\* C6: AggregateResult returns the maximum result (Unknown < Ok < Warning <
\* Error) of all conditions and sub-statuses, Unknown when there are none,
\* and the OR of their progressing flags; it passes both lists through
\* unchanged; every permutation of either list gives the same object status.
C6_AggregateIsMaxAndOr ==
    aOut.op = "AggregateResult" =>
        LET all == {aConds[i].CondStatus : i \in 1..Len(aConds)}
                   \cup {aSubs[i].ObjStatus : i \in 1..Len(aSubs)}
        IN /\ aOut.ret.ObjStatus.Result = Max({Unknown} \cup {st.Result : st \in all})
           /\ aOut.ret.ObjStatus.Progressing = (\E st \in all : st.Progressing)
           /\ aOut.ret.SubStatuses = aSubs
           /\ aOut.ret.Conditions = aConds
           /\ aOut.ret.Object = AggObject
           /\ \A pc \in Perms(Len(aConds)) :
                 AggregateResult(AggObject, aSubs, Permute(aConds, pc)).ObjStatus
                    = aOut.ret.ObjStatus
           /\ \A ps \in Perms(Len(aSubs)) :
                 AggregateResult(AggObject, Permute(aSubs, ps), aConds).ObjStatus
                    = aOut.ret.ObjStatus

\* C6 witness: an aggregation of two conditions and two sub-statuses whose
\* largest result comes first in a list and whose progressing flags differ.
C6_Witness ==
    /\ aOut.op = "AggregateResult"
    /\ Len(aConds) = 2 /\ Len(aSubs) = 2
    /\ aConds[1].CondStatus.Result = Error /\ aConds[2].CondStatus.Result = Ok
    /\ aSubs[1].ObjStatus.Result = Warning /\ aSubs[2].ObjStatus.Result = Unknown
    /\ aSubs[1].ObjStatus.Progressing /\ ~aSubs[2].ObjStatus.Progressing
    /\ aOut.ret.ObjStatus = Status(Error, TRUE, NoErr)

\* C7: after Reset the Evaluator holds nothing of the previous cycle: object
\* cache, namespace caches, ownership index, ownership refresh list and the
\* per-UID analyzer cache are empty, as in a new Evaluator.
C7_ResetClearsEverything ==
    lastOp.op = "Reset" =>
        /\ cache = NewEvaluator.cache
        /\ nsCache = NewEvaluator.nsCache
        /\ ownership = NewEvaluator.ownership
        /\ ownershipRefreshNs = NewEvaluator.ownershipRefreshNs
        /\ analyzersCache = NewEvaluator.analyzersCache

RECURSIVE EvalAll(_, _)
\* StatusPoller.run after its Reset: Eval of every object of the list in turn
EvalAll(e, us) ==
    IF us = <<>> \/ e.diverged \/ e.panicked THEN [e |-> e, sts |-> <<>>]
    ELSE LET r == Eval(e, Object(Head(us), "given"), MaxDepth)
             rest == EvalAll(r.e, Tail(us))
         IN [e |-> rest.e, sts |-> <<r.st>> \o rest.sts]

\* the object lists a poller may hold: up to two distinct objects
PollerObjects == {us \in SeqsUpTo(UIDs, 2) : Len(us) = 2 => us[1] # us[2]}

RECURSIVE TreeUpToOrder(_)
\* a status tree with the order of the sub-statuses forgotten at every level
TreeUpToOrder(st) ==
    [Object |-> st.Object, ObjStatus |-> st.ObjStatus, Conditions |-> st.Conditions,
     SubStatuses |-> {TreeUpToOrder(st.SubStatuses[i]) : i \in 1..Len(st.SubStatuses)}]

TreesUpToOrder(sts) == [i \in 1..Len(sts) |-> TreeUpToOrder(sts[i])]

\* C8: evaluating the same objects after Reset gives, up to the order of the
\* sub-statuses, the status trees of an evaluation on a new Evaluator,
\* whatever was loaded or evaluated before the Reset.
C8_ResetThenEvalIsReproducible ==
    lastOp.op = "Reset" =>
        \A us \in PollerObjects :
            TreesUpToOrder(EvalAll(Current, us).sts)
                = TreesUpToOrder(EvalAll(NewEvaluator, us).sts)

\* C9: no bucket of a namespace cache holds two entries with the same UID,
\* and inserting an object whose UID is cached changes neither the UID cache
\* nor any namespace bucket.
C9_OneEntryPerUID ==
    /\ \A ns \in DOMAIN nsCache : \A gk \in DOMAIN nsCache[ns].objects :
          \A i, j \in 1..Len(nsCache[ns].objects[gk]) :
              nsCache[ns].objects[gk][i].UID = nsCache[ns].objects[gk][j].UID => i = j
    /\ \A u \in DOMAIN cache : \A ver \in {"given", "fresh"} :
          LET r == updateCache(Current, Object(u, ver))
          IN ~r.ok /\ r.e.cache = cache /\ r.e.nsCache = nsCache

\* C9 witness: a bulk load of all namespaces delivered an object again that
\* a single-object Eval had cached before, next to objects it newly cached.
C9_Witness ==
    /\ lastOp.op = "Load"
    /\ lastOp.q.Ns = NamespaceAll
    /\ \E u \in DOMAIN cache : cache[u].Ver = "given"
    /\ NamespaceAll \in DOMAIN nsCache
    /\ "PersistentVolume" \in DOMAIN nsCache[NamespaceAll].objects
    /\ Len(nsCache[NamespaceNone].objects["PersistentVolume"]) = 3

RECURSIVE Visits(_)
\* the UIDs analyzed to build a status tree, in the order of the Analyze calls
Visits(st) ==
    <<st.Object.UID>> \o Flatten([i \in 1..Len(st.SubStatuses) |-> Visits(st.SubStatuses[i])])

\* C10: the traversal that builds the status tree of an object evaluated by
\* a top-level Eval or EvalQuery call never analyzes the same UID twice.
C10_NoUIDAnalyzedTwice ==
    lastOp.op \in {"Eval", "EvalQuery"} =>
        \A k \in 1..Len(lastRet) :
            LET v == Visits(lastRet[k])
            IN \A i, j \in 1..Len(v) : v[i] = v[j] => i = j

\* C11: when the Loader's bulk Load failed while the sub-objects of the
\* object given to Eval were loaded, the status returned for that object is
\* Unknown and carries an error.
C11_LoadErrorGivesUnknown ==
    (lastOp.op = "Eval" /\ lastOp.uid \in loadErrObjs) =>
        (lastRet[1].ObjStatus.Result = Unknown /\ lastRet[1].ObjStatus.Err # NoErr)

\* C12: a status.conditions field that is malformed never aborts the
\* evaluation: no Eval or EvalQuery call panics.
C12_SchemaErrorNeverAborts == ~panicked

Min(S) == CHOOSE x \in S : \A y \in S : x <= y

\* C13: with DefaultAnalyzers() findAnalyzer never returns nil and returns
\* the first registered analyzer that supports the object's kind; only when
\* no registered analyzer supports it, the always-green analyzer (for its
\* kinds) or else the generic catch-all is returned.
C13_FirstSupportingAnalyzerWins ==
    callRet.fn = "findAnalyzer" =>
        LET reg == callArgs.registered
            hits == {i \in 1..Len(reg) : callArgs.kind \in reg[i].Kinds}
        IN /\ callRet.ret # NilAnalyzer
           /\ hits # {} => callRet.ret = reg[Min(hits)]
           /\ (hits = {} /\ callArgs.kind \in AlwaysGreenAnalyzer.Kinds)
                 => callRet.ret = AlwaysGreenAnalyzer
           /\ (hits = {} /\ callArgs.kind \notin AlwaysGreenAnalyzer.Kinds)
                 => callRet.ret = GenericAnalyzer

\* C13 witness: two registered analyzers support a Pod, the first one won.
C13_Witness ==
    /\ callRet.fn = "findAnalyzer"
    /\ callArgs.kind = "Pod"
    /\ Len(callArgs.registered) = 2
    /\ callArgs.registered[1].Name = "Workload"
    /\ callArgs.registered[2].Name = "Pod"
    /\ callRet.ret.Name = "Workload"

\* C14: GenericConditionAnalyzer.Analyze returns NoMatch for a type in none
\* of the five sets; for a bad polarity (False, or True for a reversed type)
\* the target result of the last matching set in the order Conditions,
\* ReversedPolarity, Progressing, Warning, Unknown, progressing iff the type
\* is in ProgressingConditions; else Unknown for status Unknown; else Ok.
C14_ConditionAnalyzeTable ==
    callRet.fn = "Analyze" =>
        LET a == callArgs.a
            t == callArgs.cond.Type
            v == callArgs.cond.Value
            matched == t \in (a.Conditions \cup a.ReversedPolarityConditions
                               \cup a.ProgressingConditions \cup a.WarningConditions
                               \cup a.UnknownConditions)
            reverse == t \in a.ReversedPolarityConditions
            bad == (~reverse /\ v = "False") \/ (reverse /\ v = "True")
            target == IF t \in a.UnknownConditions THEN Unknown
                      ELSE IF t \in a.WarningConditions THEN Warning
                      ELSE IF t \in a.ProgressingConditions THEN Unknown
                      ELSE Error
            expected == IF bad THEN Status(target, t \in a.ProgressingConditions, NoErr)
                        ELSE IF v = "Unknown" THEN Status(Unknown, FALSE, NoErr)
                        ELSE Status(Ok, FALSE, NoErr)
        IN IF ~matched THEN callRet.ret = ConditionStatusNoMatch
           ELSE callRet.ret = ConditionStatus(t, v, expected)

\* C14 witness: a type in ReversedPolarity, Progressing and Warning with
\* status True was analyzed as Warning and progressing.
C14_Witness ==
    /\ callRet.fn = "Analyze"
    /\ callArgs.cond = [Type |-> "Reconciling", Value |-> "True"]
    /\ callArgs.a.Conditions = {}
    /\ callArgs.a.ReversedPolarityConditions = {"Reconciling"}
    /\ callArgs.a.ProgressingConditions = {"Reconciling"}
    /\ callArgs.a.WarningConditions = {"Reconciling"}
    /\ callArgs.a.UnknownConditions = {}
    /\ callRet.ret.CondStatus = Status(Warning, TRUE, NoErr)

\* C15: a condition whose type is listed only in ProgressingConditions is
\* analyzed as Unknown and progressing when its status is True, and as
\* Unknown and not progressing when its status is False.
C15_ProgressingOnlyCondition ==
    (/\ callRet.fn = "Analyze"
     /\ callArgs.cond.Type \in callArgs.a.ProgressingConditions
     /\ callArgs.cond.Type \notin (callArgs.a.Conditions \cup callArgs.a.ReversedPolarityConditions
                                    \cup callArgs.a.WarningConditions \cup callArgs.a.UnknownConditions))
    => /\ callArgs.cond.Value = "True" => callRet.ret.CondStatus = Status(Unknown, TRUE, NoErr)
       /\ callArgs.cond.Value = "False" => callRet.ret.CondStatus = Status(Unknown, FALSE, NoErr)

\* C16: a Ref query returns exactly the candidates whose UID equals the
\* reference's UID when the reference carries a UID, and exactly those whose
\* name equals the reference's name when it carries none.
C16_RefQueryByUIDElseName ==
    callRet.fn = "RefQuery" =>
        callRet.ret = SelectSeq(callArgs.candidates,
                                LAMBDA cand : IF callArgs.refObject.UID # NoUID
                                              THEN cand.UID = callArgs.refObject.UID
                                              ELSE cand.Name = callArgs.refObject.Name)

\* C18: the exit code has low bits 0 when all results are Ok, 1 when some
\* is Warning, 2 when some is Error, 3 when some is Unknown (the highest
\* applicable wins); the bit of value 8 is set exactly when some status is
\* progressing; every permutation of the statuses gives the same code.
C18_ExitCode ==
    callRet.fn = "setExitCode" =>
        LET sts == callArgs.statuses
            results == {sts[i].ObjStatus.Result : i \in 1..Len(sts)}
            low == IF Unknown \in results THEN 3
                   ELSE IF Error \in results THEN 2
                   ELSE IF Warning \in results THEN 1
                   ELSE 0
        IN /\ callRet.ret % ProgressingBit = low
           /\ (callRet.ret \div ProgressingBit = 1)
                 <=> (\E i \in 1..Len(sts) : sts[i].ObjStatus.Progressing)
           /\ callRet.ret \in 0..(2 * ProgressingBit - 1)
           /\ \A perm \in Perms(Len(sts)) : setExitCode(Permute(sts, perm)) = callRet.ret

\* C18 witness: an Unknown status followed by a progressing Error status
\* gave the code 8 + 3.
C18_Witness ==
    /\ callRet.fn = "setExitCode"
    /\ Len(callArgs.statuses) = 2
    /\ callArgs.statuses[1].ObjStatus = Status(Unknown, FALSE, NoErr)
    /\ callArgs.statuses[2].ObjStatus = Status(Error, TRUE, NoErr)
    /\ callRet.ret = 11


\* C20: a step Eval(obj) of an object whose UID is not cached (Loader.Get
\* succeeds) leaves the fresh object returned by Loader.Get in the cache under
\* that UID, which is the version a second Eval of the UID analyzes.
C20_EvalCachesFreshObject ==
    [][\A u \in UIDs :
          (/\ lastOp'.op = "Eval"
           /\ lastOp'.uid = u
           /\ u \notin DOMAIN cache
           /\ ~crashed')
          => (u \in DOMAIN cache' /\ cache'[u] = LoaderGet(Object(u, "given")).obj)]_vars


\* C17: once the context is cancelled the poller goroutine eventually returns
\* and the update channel is eventually closed, wherever the goroutine was
\* when the cancellation arrived (in a cycle, in the send or in the select);
\* after the close nothing more is sent.
C17_CancelStopsPoller ==
    /\ ctxDone ~> (pollerPc = "done" /\ chanClosed)
    /\ [][chanClosed => (pollerPc' = "done" /\ inFlight' = <<>> /\ received' = received)]_vars
\* a run in which the context was cancelled from outside (the wait function
\* never finishes with --wait-forever) and poller and printer have ended
C17_Witness ==
    /\ flags.waitForever
    /\ ctxDone
    /\ chanClosed
    /\ pollerPc = "done"
    /\ printerPc = "done"
    /\ decision = "wait"

\* C19: with --wait-progress (and without --wait-forever) the wait function
\* finishes on a status update exactly when no top-level object of the update
\* is progressing, whatever the results of the objects are.
C19_WaitProgressFinishes ==
    [][(/\ printerPc = "callback"
        /\ printerPc' = "recv"
        /\ flags.waitProgress
        /\ ~flags.waitForever)
       => (decision' = "finish"
              <=> ~\E i \in 1..Len(received) : received[i].ObjStatus.Progressing)]_vars


\* C27: in every state an Owner query for any owner returns every cached
\* object of the queried namespace whose kind the matcher matches and whose
\* ownerReferences contain the owner's UID.
C27_OwnerQueryComplete ==
    ~crashed =>
    \A o \in UIDs :
        LET q == GenericOwnerQuerySpec(Object(o, "fresh"))
            r == Load(Current, q)
        IN \A u \in DOMAIN r.e.cache :
              (NamespaceOf(u) = q.Ns /\ Match(q.GK, KindOf(u)) /\ o \in owners[u])
              => \E i \in 1..Len(r.objs) : r.objs[i].UID = u

\* C28: a step Load(q) whose loader call does not fail returns every object
\* the backing store holds in q's namespace with a kind matched by q's
\* matcher, and leaves each of them in the cache.
C28_LoadReturnsAllOfStore ==
    [][(lastOp'.op = "Load" /\ ~crashed')
       => \A u \in UIDs :
             (/\ lastOp'.q.Ns = NamespaceAll \/ NamespaceOf(u) = lastOp'.q.Ns
              /\ Match(lastOp'.q.GK, KindOf(u)))
             => (u \in DOMAIN cache' /\ \E i \in 1..Len(lastRet') : lastRet'[i].UID = u)]_vars

\* C29: no call of the Evaluator runs into an unbounded recursion, whatever
\* the ownerReferences of the loaded objects are.
C29_EvalTerminates == ~(crashed /\ ~panicked)


\* C30: a namespace marked as needing a refill (its last load failed) is
\* loaded again by the next query for that namespace: when the Loader no
\* longer fails, the namespace is not left marked by an EvalQuery step.
C30_FailedLoadIsRetried ==
    [][(/\ lastOp'.op = "EvalQuery"
        /\ ~crashed'
        /\ failing = {}
        /\ lastOp'.q.Ns \in DOMAIN nsCache
        /\ nsCache[lastOp'.q.Ns].needsRefill)
       => ~nsCache'[lastOp'.q.Ns].needsRefill]_vars


\* C21: the error a bulk list returns is the error of the list request that
\* failed first, in every interleaving of the list goroutines.
C21_FirstErrorReturned ==
    bulkRet.fn = "Load" => bulkRet.err = firstErr

\* C22: when some list requests of a bulk load fail and others succeed, Load
\* returns the objects of the successful lists together with the error.
C22_PartialResultsReturned ==
    (bulkRet.fn = "Load" /\ bulkRet.err # NoListErr) =>
        \A r \in BulkResources \ failing :
            \A u \in list(r, NamespaceAll) :
                \E i \in 1..Len(bulkRet.objs) : bulkRet.objs[i] = u


\* C23: the sub-status of a container in Waiting state is progressing when
\* the container has no previous termination or its last termination
\* finished at most progressingTimeout ago, and not progressing when the last
\* termination is older, whatever the Ready flag is.
C23_WaitingContainerProgressing ==
    (callRet.fn = "analyzeContainer" /\ callArgs.cs.State = "Waiting") =>
        (callRet.ret.ObjStatus.Progressing
            <=> (~callArgs.cs.LastTerminated \/ callArgs.cs.Age <= progressingTimeout))

\* the condition of the given type in the status st (st has one)
ConditionOf(st, condType) == st.Conditions[GetCondition(st.Conditions, condType)]
HasCondition(conds, condType, value, reason) ==
    \E i \in 1..Len(conds) :
        /\ conds[i].Type = condType
        /\ value # "" => conds[i].Value = value
        /\ reason # "" => conds[i].Reason = reason

\* C24: a Deployment whose Progressing condition has the reason
\* ProgressDeadlineExceeded reports that condition as Error, one whose
\* Available condition is False reports that condition as Error, and the
\* Deployment's result is Error in both cases, whatever its ReplicaSets are.
C24_DeploymentErrorConditions ==
    callRet.fn = "DeploymentAnalyze" =>
        /\ HasCondition(callArgs.conds, "Progressing", "", "ProgressDeadlineExceeded")
           => /\ ConditionOf(callRet.ret, "Progressing").CondStatus.Result = Error
              /\ callRet.ret.ObjStatus.Result = Error
        /\ HasCondition(callArgs.conds, "Available", "False", "")
           => /\ ConditionOf(callRet.ret, "Available").CondStatus.Result = Error
              /\ callRet.ret.ObjStatus.Result = Error

\* the ReplicaSet statuses that remain, and the verdict of the condition
\* analyzers on the Progressing condition
Remaining(subs) == SelectSeq(subs, LAMBDA st : st.Object.Replicas # 0)
AllOkAndDone(subs) ==
    \A i \in 1..Len(subs) : subs[i].ObjStatus.Result = Ok /\ ~subs[i].ObjStatus.Progressing
AnalyzersVerdict(conds) ==
    LET cs == AnalyzeDeploymentConditions(conds)
    IN cs[GetCondition(cs, "Progressing")].CondStatus

\* C25 as stated: ReplicaSets with spec.replicas = 0 never appear as
\* sub-statuses; whenever every remaining ReplicaSet status is Ok and not
\* progressing, including when none remains, the Progressing condition is
\* reported Ok and not progressing, otherwise it keeps the analyzers' verdict.
C25_ProgressingDowngrade ==
    callRet.fn = "DeploymentAnalyze" =>
        /\ callRet.ret.SubStatuses = Remaining(callArgs.subs)
        /\ HasCondition(callArgs.conds, "Progressing", "", "")
           => ConditionOf(callRet.ret, "Progressing").CondStatus =
                 IF AllOkAndDone(Remaining(callArgs.subs))
                 THEN Status(Ok, FALSE, NoErr)
                 ELSE AnalyzersVerdict(callArgs.conds)

\* C25 amended: as above, but the condition is downgraded only when at least
\* one ReplicaSet remains.
C25_ProgressingDowngrade_Amended ==
    callRet.fn = "DeploymentAnalyze" =>
        /\ callRet.ret.SubStatuses = Remaining(callArgs.subs)
        /\ HasCondition(callArgs.conds, "Progressing", "", "")
           => ConditionOf(callRet.ret, "Progressing").CondStatus =
                 IF Remaining(callArgs.subs) # <<>> /\ AllOkAndDone(Remaining(callArgs.subs))
                 THEN Status(Ok, FALSE, NoErr)
                 ELSE AnalyzersVerdict(callArgs.conds)
\* a Deployment with a scaled-down ReplicaSet and a remaining one that is Ok
\* and done, whose Progressing condition was downgraded from Unknown
C25_Witness ==
    /\ callRet.fn = "DeploymentAnalyze"
    /\ Len(callArgs.subs) = 2
    /\ Len(callRet.ret.SubStatuses) = 1
    /\ HasCondition(callArgs.conds, "Progressing", "True", "")
    /\ AnalyzersVerdict(callArgs.conds) = Status(Unknown, TRUE, NoErr)
    /\ ConditionOf(callRet.ret, "Progressing").CondStatus = Status(Ok, FALSE, NoErr)


\* the kind of a related object's resource in the cluster
KindOfResource(r) == (CHOOSE o \in Range(ClusterObjects) : o.Resource = r.Resource).Kind

\* C26: the ClusterOperator analyzer evaluates a related object exactly when
\* its name differs from the ClusterOperator's name and its kind is not
\* ignored, and no status of the ClusterOperator has a sub-status for the
\* ClusterOperator itself or for an object of an ignored kind; an analysis
\* that nests into itself until the stack is exhausted has built such a
\* sub-status.
C26_RelatedObjectsFiltered ==
    callRet.fn = "ClusterOperatorAnalyze" =>
        /\ ~callRet.ret.overflow
        /\ callRet.ret.evaluated =
              SelectSeq(callArgs.related,
                  LAMBDA r : r.Name # ClusterObjects[1].Name /\ ~IsIgnoredKind(KindOfResource(r)))
        /\ \A i \in 1..Len(callRet.ret.status.SubStatuses) :
              /\ callRet.ret.status.SubStatuses[i].Object.UID # ClusterObjects[1].UID
              /\ ~IsIgnoredKind(callRet.ret.status.SubStatuses[i].Object.Kind)

====
